---- MODULE Spec2Model ----
(***************************************************************************)
(* Model of hydro_pipeline: the GUI worker (_travail) that runs one         *)
(* pipeline, and the hydrological analysis orchestrator                     *)
(* (analyse_hydro_grass) with the GRASS session it drives.                  *)
(*                                                                          *)
(* Numbers: threshold_km2 is drawn in halves of a km2 (a dyadic value, so   *)
(* the float product threshold_km2 * 1_000_000.0 is exact) and resolutions  *)
(* are whole metres; coordinates are whole map units.                       *)
(***************************************************************************)
EXTENDS Integers, Sequences, FiniteSets, TLC

VARIABLES
    cfg,        \* the Config of the run (immutable during the run)
    pc,         \* position of the worker _travail
    hpc,        \* position inside analyse_hydro_grass
    gi,         \* GrassImports: binding of gi.GrassError ("" before import)
    sess,       \* the GRASS session: layers, mask, region, outlet_point table
    calls,      \* every engine operation issued, in order
    seuil,      \* local seuil of analyse_hydro_grass (0 before it is set)
    projPt,     \* (proj_x, proj_y) from the transformer (<<>> before)
    vdOut,      \* text returned by the v.distance query
    outPt,      \* (out_x, out_y) local of analyse_hydro_grass (<<>> before)
    ret,        \* pair returned by analyse_hydro_grass (<<>> if none)
    raised,     \* exception raised inside the try body of analyse_hydro_grass
    anaExc,     \* exception that leaves analyse_hydro_grass
    exc,        \* exception caught by the worker's except clause
    log,        \* log records emitted, in order
    fs,         \* directories that exist on disk
    files,      \* files written by the run
    locals,     \* dossier_temp and base_grass of _travail (None before set)
    net,        \* number of HTTP requests sent
    subprocs,   \* subprocesses started, in order
    ui,         \* log window, main window and message boxes
    resp,       \* what became of the HTTP request ("" before it is sent)
    call,       \* a call of one of the pure functions: its name and arguments
    result,     \* what that call returned or raised
    threads     \* the worker threads started by clicks on the launch button

vars == <<cfg, pc, hpc, gi, sess, calls, seuil, projPt, vdOut, outPt, ret,
          raised, anaExc, exc, log, fs, files, locals, net, subprocs, ui,
          resp, call, result, threads>>

anaVars == <<hpc, sess, calls, seuil, projPt, vdOut, outPt, ret, raised, anaExc>>

envVars == <<fs, files, locals, net, subprocs, ui, resp>>

----------------------------------------------------------------------------
(* Bounds of the model *)

MaxThrHalves == 2       \* threshold_km2 ranges over -1/2 .. MaxThrHalves/2 km2
MaxCoord == 1           \* coordinates range over 0 .. MaxCoord
MaxMissing == 1         \* at most this many requirements missing in a run
MaxHalfKm == 3          \* half-widths range over 0 .. MaxHalfKm km, and 111 km
MaxCells == 2           \* band 1 of a raster has at most this many cells
MaxLaunches == 2        \* at most this many clicks on the launch button

(* 1_000_000 m2 per km2, per half of a km2 *)
M2PerHalf == 500000

ThresholdHalves == (0 - 1) .. MaxThrHalves
(* (ewres, nsres) of the cleaned DEM, in metres *)
DemResolutions == {<<30, 30>>, <<30, 500>>, <<1000, 1000>>}
Coords == 0 .. MaxCoord
Points == {<<x, y>> : x \in Coords, y \in Coords}
InputPoints == {<<c, c>> : c \in Coords}
Origin == <<0, 0>>
FarPoint == <<MaxCoord, MaxCoord>>

----------------------------------------------------------------------------
(* Exceptions *)

None == "None"
NoExc == [cls |-> "", cause |-> ""]
Exc(c) == [cls |-> c, cause |-> ""]
Chained(c, e) == [cls |-> c, cause |-> e.cls]

(* isinstance(e, gi.GrassError): with the engine's class only a GrassError  *)
(* matches, with the fallback binding every exception does.                 *)
IsGrassError(binding, e) ==
    IF binding = "Exception" THEN TRUE ELSE e.cls = "GrassError"

(* gi.GrassError("...") *)
NewGrassError(binding) ==
    IF binding = "Exception" THEN Exc("Exception") ELSE Exc("GrassError")

(* What a failing engine operation can raise: the engine's own error class  *)
(* or the module-call error of run_command.                                 *)
EngineFailures == {"GrassError", "CalledModuleError"}

----------------------------------------------------------------------------
(* Engine operations: g.run_command / g.parse_command / g.read_command      *)

BaseOp == [cmd |-> "", flags |-> "", input |-> "", output |-> "",
           column |-> "", value |-> "", threshold |-> 0, coords |-> <<>>,
           reads |-> {}, writes |-> {}]

OpInGdal == [BaseOp EXCEPT !.cmd = "r.in.gdal", !.input = "cleaned_dem_temp.tif",
                           !.output = "dem", !.flags = "o", !.writes = {"dem"}]

OpRegionSet == [BaseOp EXCEPT !.cmd = "g.region", !.input = "dem", !.flags = "p",
                              !.reads = {"dem"}]

OpFillDir == [BaseOp EXCEPT !.cmd = "r.fill.dir", !.input = "dem",
                            !.output = "dem_filled", !.reads = {"dem"},
                            !.writes = {"dem_filled", "drain_map_for_outlet"}]

OpWatershed == [BaseOp EXCEPT !.cmd = "r.watershed", !.input = "dem_filled",
                              !.output = "flow_acc", !.threshold = 1,
                              !.reads = {"dem_filled"},
                              !.writes = {"flow_acc", "drain_map_for_outlet"}]

OpRegionRead == [BaseOp EXCEPT !.cmd = "g.region", !.flags = "g"]

OpStreamExtract(threshold) ==
    [BaseOp EXCEPT !.cmd = "r.stream.extract", !.input = "dem_filled",
                   !.output = "rivieres", !.threshold = threshold,
                   !.reads = {"dem_filled", "flow_acc"},
                   !.writes = {"streams", "rivieres"}]

OpInAscii(csv, layer) ==
    [BaseOp EXCEPT !.cmd = "v.in.ascii", !.input = csv, !.output = layer,
                   !.writes = {layer}]

OpDistance == [BaseOp EXCEPT !.cmd = "v.distance", !.input = "input_point_proj",
                             !.flags = "p",
                             !.reads = {"input_point_proj", "rivieres"}]

OpWaterOutlet(x, y) ==
    [BaseOp EXCEPT !.cmd = "r.water.outlet", !.input = "drain_map_for_outlet",
                   !.output = "main_basin", !.coords = <<x, y>>,
                   !.reads = {"drain_map_for_outlet"}, !.writes = {"main_basin"}]

OpToVect == [BaseOp EXCEPT !.cmd = "r.to.vect", !.input = "main_basin",
                           !.output = "main_basin_vect", !.flags = "s",
                           !.reads = {"main_basin"}, !.writes = {"main_basin_vect"}]

(* Mutant: the outlet is flagged as a reservoir *)
SwatColumnsReservoir == <<<<"PointId", "1">>, <<"RES", "1">>, <<"INLET", "0">>,
                          <<"ID", "1">>, <<"PTSOURCE", "0">>>>

SwatColumns == <<<<"PointId", "1">>, <<"RES", "0">>, <<"INLET", "0">>,
                 <<"ID", "1">>, <<"PTSOURCE", "0">>>>

OpAddColumn == [BaseOp EXCEPT !.cmd = "v.db.addcolumn", !.input = "outlet_point",
                              !.reads = {"outlet_point"}, !.writes = {"outlet_point"}]

OpDbUpdate(col, val) ==
    [BaseOp EXCEPT !.cmd = "v.db.update", !.input = "outlet_point",
                   !.column = col, !.value = val,
                   !.reads = {"outlet_point"}, !.writes = {"outlet_point"}]

OpExtract == [BaseOp EXCEPT !.cmd = "v.extract", !.input = "rivieres",
                            !.output = "rivieres_only_lines",
                            !.reads = {"rivieres"}, !.writes = {"rivieres_only_lines"}]

OpBuild == [BaseOp EXCEPT !.cmd = "v.build", !.input = "rivieres_only_lines",
                          !.reads = {"rivieres_only_lines"},
                          !.writes = {"rivieres_only_lines"}]

OpDissolve == [BaseOp EXCEPT !.cmd = "v.dissolve", !.input = "main_basin_vect",
                             !.output = "main_basin_diss", !.column = "cat",
                             !.reads = {"main_basin_vect"},
                             !.writes = {"main_basin_diss"}]

OpClip == [BaseOp EXCEPT !.cmd = "v.clip", !.input = "rivieres_only_lines",
                         !.output = "rivieres_clipped",
                         !.reads = {"rivieres_only_lines", "main_basin_diss"},
                         !.writes = {"rivieres_clipped"}]

OpSelect == [BaseOp EXCEPT !.cmd = "v.select", !.input = "outlet_point",
                           !.output = "outlet_point_clipped",
                           !.reads = {"outlet_point", "main_basin_diss"},
                           !.writes = {"outlet_point_clipped"}]

OpMask == [BaseOp EXCEPT !.cmd = "r.mask", !.input = "main_basin_diss",
                         !.reads = {"main_basin_diss"}]

OpMapcalc == [BaseOp EXCEPT !.cmd = "r.mapcalc", !.input = "dem_filled",
                            !.output = "dem_filled_masked",
                            !.reads = {"dem_filled"}, !.writes = {"dem_filled_masked"}]

OpMaskRemove == [BaseOp EXCEPT !.cmd = "r.mask", !.flags = "r"]

OpGisenv == [BaseOp EXCEPT !.cmd = "g.gisenv", !.value = "VERBOSE=0"]

OpOutOgr(layer, outLayer, flags) ==
    [BaseOp EXCEPT !.cmd = "v.out.ogr", !.input = layer, !.output = "hydro_results.gpkg",
                   !.column = outLayer, !.flags = flags, !.reads = {layer}]

OpOutGdal == [BaseOp EXCEPT !.cmd = "r.out.gdal", !.input = "dem_filled_masked",
                            !.output = "MNT_decoupe_bassin_versant.tif",
                            !.flags = "c", !.reads = {"dem_filled_masked"}]

----------------------------------------------------------------------------
(* The session and the effect of one successful operation on it *)

(* A new location has the default region (resolution 1 x 1); demRes is the  *)
(* resolution of the imported raster.                                       *)
DefaultRegion == [raster |-> "", ewres |-> 1, nsres |-> 1]

NoSession == [layers |-> {}, mask |-> FALSE, region |-> DefaultRegion,
              demRes |-> <<>>, outletPt |-> <<>>, outletAttrs |-> {}]

File(name, data) == [name |-> name, data |-> data]

FileData(fl, name) ==
    IF \E f \in fl : f.name = name
    THEN (CHOOSE f \in fl : f.name = name).data
    ELSE <<>>

WriteFile(fl, name, data) == {f \in fl : f.name # name} \cup {File(name, data)}

ColumnNames == {SwatColumns[i][1] : i \in 1 .. Len(SwatColumns)}

ApplyOp(s, op, fl) ==
    LET w == [s EXCEPT !.layers = @ \cup op.writes] IN
    CASE op.cmd = "r.in.gdal" -> [w EXCEPT !.demRes = FileData(fl, op.input)]
      [] op.cmd = "g.region" /\ op.flags = "p" ->
            [w EXCEPT !.region = [raster |-> op.input, ewres |-> w.demRes[1],
                                  nsres |-> w.demRes[2]]]
      [] op.cmd = "r.mask" /\ op.flags = "r" -> [w EXCEPT !.mask = FALSE]
      [] op.cmd = "r.mask" /\ op.flags # "r" -> [w EXCEPT !.mask = TRUE]
      [] op.cmd = "v.in.ascii" /\ op.output = "outlet_point" ->
            [w EXCEPT !.outletPt = FileData(fl, op.input), !.outletAttrs = {}]
      [] op.cmd = "v.db.addcolumn" ->
            [w EXCEPT !.outletAttrs = @ \cup {<<c, "NULL">> : c \in ColumnNames}]
      [] op.cmd = "v.db.update" ->
            [w EXCEPT !.outletAttrs =
                {a \in @ : a[1] # op.column} \cup
                {<<a[1], op.value>> : a \in {b \in @ : b[1] = op.column}}]
      [] OTHER -> w

RECURSIVE RunOps(_, _, _, _)
RunOps(s, ops, n, fl) ==
    IF n = 0 THEN s
    ELSE ApplyOp(RunOps(s, ops, n - 1, fl), ops[n], fl)

(* A function issues its operations in order; k = 0: all of them succeed,   *)
(* k > 0: operation k is issued and fails.                                  *)
Issued(ops, k) == IF k = 0 THEN ops ELSE SubSeq(ops, 1, k)
Succeeded(ops, k) == IF k = 0 THEN Len(ops) ELSE k - 1

----------------------------------------------------------------------------
(* Text of the v.distance query (flags="p", upload="dist,to_x,to_y"):       *)
(* a sequence of lines, each line the sequence of its "|"-separated fields. *)

Digits == <<"0", "1", "2", "3", "4">>
NumStr(n) == Digits[n + 1]
IsNumeric(str) == \E i \in 1 .. Len(Digits) : Digits[i] = str
ParseFloat(str) == (CHOOSE i \in 1 .. Len(Digits) : Digits[i] = str) - 1

BlankLine == <<"">>
HeaderLine == <<"from_cat", "dist", "to_x", "to_y">>
DataRow(p) == <<"1", "3", NumStr(p[1]), NumStr(p[2])>>
NullRow == <<"1", "null", "null", "null">>

(* got: the query has returned; none: it returned None instead of a text *)
Text(ls) == [got |-> TRUE, none |-> FALSE, lines |-> ls]
NoText == [got |-> TRUE, none |-> TRUE, lines |-> <<>>]
NoAnswer == [got |-> FALSE, none |-> TRUE, lines |-> <<>>]

(* What the engine can answer: nothing, an empty text, the header alone,    *)
(* or the header and one row per input point (null when nothing is near),   *)
(* with or without surrounding blank lines.                                 *)
VDistanceOutputs ==
    {NoText, Text(<<>>), Text(<<BlankLine>>), Text(<<HeaderLine>>),
     Text(<<HeaderLine, BlankLine>>), Text(<<HeaderLine, NullRow>>)}
    \cup {Text(<<HeaderLine, DataRow(p)>>) : p \in Points}
    \cup {Text(<<HeaderLine, DataRow(Origin), BlankLine>>),
          Text(<<BlankLine, HeaderLine, DataRow(FarPoint)>>),
          Text(<<HeaderLine, DataRow(Origin), DataRow(FarPoint)>>)}

RECURSIVE LStrip(_)
LStrip(ls) ==
    IF ls # <<>> /\ Head(ls) = BlankLine THEN LStrip(Tail(ls)) ELSE ls

RECURSIVE RStrip(_)
RStrip(ls) ==
    IF ls # <<>> /\ ls[Len(ls)] = BlankLine
    THEN RStrip(SubSeq(ls, 1, Len(ls) - 1))
    ELSE ls

(* (out or "").strip().splitlines() *)
StripSplitLines(out) == IF out.none THEN <<>> ELSE RStrip(LStrip(out.lines))

(* Lines 140-141: parts = lines[1].split("|"); float(parts[2]), float(parts[3]) *)
ParseRow(parts, ix, iy) ==
    IF Len(parts) < iy
    THEN [exc |-> Exc("IndexError"), pt |-> <<>>]
    ELSE IF ~IsNumeric(parts[ix]) \/ ~IsNumeric(parts[iy])
    THEN [exc |-> Exc("ValueError"), pt |-> <<>>]
    ELSE [exc |-> NoExc, pt |-> <<ParseFloat(parts[ix]), ParseFloat(parts[iy])>>]

(* Mutant: the test on the number of lines is missing, so lines[1] fails *)
ParseDistanceNoCheck(binding, out) ==
    LET lines == StripSplitLines(out) IN
    IF Len(lines) < 2
    THEN [exc |-> Exc("IndexError"), pt |-> <<>>]
    ELSE ParseRow(lines[2], 3, 4)

(* Mutant: the columns dist, to_x are read instead of to_x, to_y *)
ParseDistanceWrongColumns(binding, out) ==
    LET lines == StripSplitLines(out) IN
    IF Len(lines) < 2
    THEN [exc |-> NewGrassError(binding), pt |-> <<>>]
    ELSE ParseRow(lines[2], 2, 3)

(* Lines 136-143: the outcome of reading the answer.                        *)
ParseDistance(binding, out) ==
    LET lines == StripSplitLines(out) IN
    IF Len(lines) < 2
    THEN [exc |-> NewGrassError(binding), pt |-> <<>>]
    ELSE ParseRow(lines[2], 3, 4)

----------------------------------------------------------------------------
(* Threshold conversion *)

Max(a, b) == IF a >= b THEN a ELSE b

(* int(a / b) for b > 0: truncation toward zero *)
TruncDiv(a, b) == IF a >= 0 THEN a \div b ELSE 0 - ((0 - a) \div b)

(* round(a / b) for b > 0: nearest integer, ties to the even one *)
RoundDiv(a, b) ==
    LET f == a \div b
        r == a % b
    IN  IF 2 * r < b THEN f
        ELSE IF 2 * r > b THEN f + 1
        ELSE IF f % 2 = 0 THEN f ELSE f + 1

(* Mutant: the quotient is rounded *)
CalculateThresholdRounded(thr, region) ==
    Max(1, RoundDiv(thr * M2PerHalf, region.ewres * region.nsres))

(* Mutant: the floor of one cell is missing *)
CalculateThresholdNoFloor(thr, region) ==
    TruncDiv(thr * M2PerHalf, region.ewres * region.nsres)

(* max(1, int(threshold_km2 * 1_000_000.0 / cell_area)) *)
CalculateThreshold(thr, region) ==
    Max(1, TruncDiv(thr * M2PerHalf, region.ewres * region.nsres))

----------------------------------------------------------------------------
(* analyse_hydro_grass: the try body, function by function *)

LogRec(level, msg) == [level |-> level, msg |-> msg]

(* Mutant: a failing operation is ignored and the run goes on with the     *)
(* next function.                                                           *)
EngineStepSwallow(ops, fl, next) ==
    \E k \in 0 .. Len(ops) :
        /\ calls' = calls \o Issued(ops, k)
        /\ sess' = RunOps(sess, ops, Succeeded(ops, k), fl)
        /\ hpc' = next /\ raised' = NoExc

(* A function made of engine operations only: they are issued in order      *)
(* until one fails; the failure leaves the try body.                        *)
EngineStep(ops, fl, next) ==
    \E k \in 0 .. Len(ops) :
        /\ calls' = calls \o Issued(ops, k)
        /\ sess' = RunOps(sess, ops, Succeeded(ops, k), fl)
        /\ IF k = 0
           THEN hpc' = next /\ raised' = NoExc
           ELSE \E c \in EngineFailures : hpc' = "except" /\ raised' = Exc(c)

ImportAndSetupDemOps == <<OpInGdal, OpRegionSet>>

ImportAndSetupDem ==
    /\ pc = "analyse" /\ hpc = "import"
    /\ EngineStep(ImportAndSetupDemOps, files, "hydro")
    /\ UNCHANGED <<threads, call, result, cfg, pc, gi, seuil, projPt, vdOut, outPt, ret, anaExc, exc, log>>
    /\ UNCHANGED envVars

(* Mutant: accumulation before the fill *)
RunHydrologicalAnalysisOpsSwapped == <<OpWatershed, OpFillDir>>

RunHydrologicalAnalysisOps == <<OpFillDir, OpWatershed>>

RunHydrologicalAnalysis ==
    /\ pc = "analyse" /\ hpc = "hydro"
    /\ EngineStep(RunHydrologicalAnalysisOps, files, "threshold")
    /\ log' = IF hpc' = "threshold"
              THEN Append(log, LogRec("debug", "hydro done")) ELSE log
    /\ UNCHANGED <<threads, call, result, cfg, pc, gi, seuil, projPt, vdOut, outPt, ret, anaExc, exc>>
    /\ UNCHANGED envVars

CalculateThresholdStep ==
    /\ pc = "analyse" /\ hpc = "threshold"
    /\ EngineStep(<<OpRegionRead>>, files, "streams")
    /\ seuil' = IF hpc' = "streams"
                THEN CalculateThreshold(cfg.thr, sess.region) ELSE seuil
    /\ log' = IF hpc' = "streams"
              THEN Append(log, LogRec("info", "seuil")) ELSE log
    /\ UNCHANGED <<threads, call, result, cfg, pc, gi, projPt, vdOut, outPt, ret, anaExc, exc>>
    /\ UNCHANGED envVars

ExtractStreamNetwork ==
    /\ pc = "analyse" /\ hpc = "streams"
    /\ EngineStep(<<OpStreamExtract(seuil)>>, files, "point")
    /\ UNCHANGED <<threads, call, result, cfg, pc, gi, seuil, projPt, vdOut, outPt, ret, anaExc, exc, log>>
    /\ UNCHANGED envVars

InputCsv == "input_point_proj.csv"
OutletCsv == "outlet_point_swat.csv"

(* _process_input_point: transform, write the CSV, import it, query the     *)
(* nearest stream, read the answer.                                         *)
ProcessInputPoint ==
    /\ pc = "analyse" /\ hpc = "point"
    /\ \/ \* the transformer fails
          /\ raised' = Exc("CRSError") /\ hpc' = "except"
          /\ UNCHANGED <<sess, calls, projPt, vdOut, outPt, files, log>>
       \/ \* the CSV cannot be written
          /\ \E p \in InputPoints : projPt' = p
          /\ raised' = Exc("OSError") /\ hpc' = "except"
          /\ UNCHANGED <<sess, calls, vdOut, outPt, files, log>>
       \/ \* v.in.ascii or v.distance fails
          /\ \E p \in InputPoints :
                /\ projPt' = p
                /\ files' = WriteFile(files, InputCsv, p)
          /\ \E k \in 1 .. 2 :
                LET ops == <<OpInAscii(InputCsv, "input_point_proj"), OpDistance>> IN
                /\ calls' = calls \o Issued(ops, k)
                /\ sess' = RunOps(sess, ops, Succeeded(ops, k), files')
          /\ \E c \in EngineFailures : raised' = Exc(c)
          /\ hpc' = "except"
          /\ UNCHANGED <<vdOut, outPt, log>>
       \/ \* both succeed and the answer is read
          /\ \E p \in InputPoints :
                /\ projPt' = p
                /\ files' = WriteFile(files, InputCsv, p)
          /\ LET ops == <<OpInAscii(InputCsv, "input_point_proj"), OpDistance>> IN
                /\ calls' = calls \o ops
                /\ sess' = RunOps(sess, ops, 2, files')
          /\ \E out \in VDistanceOutputs :
                LET res == ParseDistance(gi, out) IN
                /\ vdOut' = out
                /\ IF res.exc = NoExc
                   THEN /\ outPt' = res.pt
                        /\ raised' = NoExc
                        /\ hpc' = "watershed"
                        /\ log' = Append(log, LogRec("info", "exutoire ajuste"))
                   ELSE /\ raised' = res.exc
                        /\ hpc' = "except"
                        /\ UNCHANGED <<outPt, log>>
    /\ UNCHANGED <<resp, threads, call, result, cfg, pc, gi, seuil, ret, anaExc, exc>>
    /\ UNCHANGED <<fs, locals, net, subprocs, ui>>

DelineateWatershedOps(x, y) == <<OpWaterOutlet(x, y), OpToVect>>

DelineateWatershed ==
    /\ pc = "analyse" /\ hpc = "watershed"
    /\ EngineStep(DelineateWatershedOps(outPt[1], outPt[2]), files, "swat")
    /\ UNCHANGED <<threads, call, result, cfg, pc, gi, seuil, projPt, vdOut, outPt, ret, anaExc, exc, log>>
    /\ UNCHANGED envVars

PrepareSwatOutletOps ==
    <<OpInAscii(OutletCsv, "outlet_point"), OpAddColumn>>
    \o [i \in 1 .. Len(SwatColumns) |->
            OpDbUpdate(SwatColumns[i][1], SwatColumns[i][2])]

PrepareSwatOutlet ==
    /\ pc = "analyse" /\ hpc = "swat"
    /\ \/ \* the CSV cannot be written
          /\ raised' = Exc("OSError") /\ hpc' = "except"
          /\ UNCHANGED <<sess, calls, files>>
       \/ /\ files' = WriteFile(files, OutletCsv, outPt)
          /\ EngineStep(PrepareSwatOutletOps, files', "post")
    /\ UNCHANGED <<resp, threads, call, result, cfg, pc, gi, seuil, projPt, vdOut, outPt, ret, anaExc, exc, log>>
    /\ UNCHANGED <<fs, locals, net, subprocs, ui>>

(* Mutant: the network is clipped before the basin is dissolved *)
PostProcessingOpsClipFirst ==
    <<OpExtract, OpBuild, OpClip, OpDissolve, OpSelect,
      OpMask, OpMapcalc, OpMaskRemove>>

PostProcessingOps ==
    <<OpExtract, OpBuild, OpDissolve, OpClip, OpSelect,
      OpMask, OpMapcalc, OpMaskRemove>>

(* _post_processing, then "return out_x, out_y" and the worker's log line   *)
PostProcessing ==
    /\ pc = "analyse" /\ hpc = "post"
    /\ EngineStep(PostProcessingOps, files, "returned")
    /\ IF hpc' = "returned"
       THEN /\ ret' = outPt
            /\ pc' = "export"
            /\ log' = log \o <<LogRec("debug", "post-traitement"),
                               LogRec("info", "exutoire")>>
       ELSE UNCHANGED <<ret, pc, log>>
    /\ UNCHANGED <<threads, call, result, cfg, gi, seuil, projPt, vdOut, outPt, anaExc, exc>>
    /\ UNCHANGED envVars

(* Mutant: every exception is wrapped in the generic failure *)
HandleAnalyseErrorWrapAll(binding, e) ==
    [level |-> IF IsGrassError(binding, e) THEN "error" ELSE "critical",
     out |-> Chained("RuntimeError", e)]

(* Lines 47-52: the two except clauses *)
HandleAnalyseError(binding, e) ==
    IF IsGrassError(binding, e)
    THEN [level |-> "error", out |-> e]
    ELSE [level |-> "critical", out |-> Chained("RuntimeError", e)]

AnalyseExcept ==
    /\ pc = "analyse" /\ hpc = "except"
    /\ LET h == HandleAnalyseError(gi, raised) IN
          /\ log' = Append(log, LogRec(h.level, "analyse"))
          /\ anaExc' = h.out
          /\ exc' = h.out
    /\ hpc' = "raised"
    /\ pc' = "except"
    /\ UNCHANGED <<threads, call, result, cfg, gi, sess, calls, seuil, projPt, vdOut, outPt, ret, raised>>
    /\ UNCHANGED envVars

----------------------------------------------------------------------------
(* The GUI worker: PipelineConfigGUI._executer_pipeline and _travail *)

Requirements ==
    {"OPENTOPOGRAPHY_API_KEY", "GRASS_GISBASE", "grass84.bat", "etc/python",
     "GDALWARP_CMD", "GDAL_DATA_EXT", "PROJ_LIB_EXT", "GDAL_BIN_EXT"}

(* Attributes of the Config among them: the others are paths derived from   *)
(* GRASS_GISBASE ("grass84.bat": one of grass_candidates).                  *)
ConfigAttrs ==
    {"OPENTOPOGRAPHY_API_KEY", "GRASS_GISBASE", "GDALWARP_CMD",
     "GDAL_DATA_EXT", "PROJ_LIB_EXT", "GDAL_BIN_EXT"}

(* How a requirement can be wanting: the attribute is None, it is the empty *)
(* string, or its path is not on disk (no path goes with the API key).      *)
Deficiencies ==
    {<<a, k>> : a \in ConfigAttrs, k \in {"None", ""}}
    \cup {<<r, "absent">> : r \in Requirements \ {"OPENTOPOGRAPHY_API_KEY"}}

Configs ==
    [thr : ThresholdHalves, dev : BOOLEAN,
     missing : {m \in SUBSET Deficiencies :
                   /\ Cardinality(m) <= MaxMissing
                   /\ \A d, e \in m : d[1] = e[1] => d = e}]

DossierSortie == "OUTPUT_DIR/session"
DossierTemp == "TEMP_DIR/session"
GrassDbDir == "GRASS_DB_DIR"
BaseGrass == "GRASS_DB_DIR/hydro_grass_db_session"
LocationPath == "GRASS_DB_DIR/hydro_loc_session"

RawDem == "alos_raw.tif"
CleanedDem == "cleaned_dem_temp.tif"
TempFiles == {RawDem, CleanedDem, InputCsv, OutletCsv}

NoLocals == [dossier_temp |-> None, base_grass |-> None, infos_env |-> None,
             mnt_brut |-> None]

(* No pure function is called during a run of the worker *)
NoCall == [fn |-> ""]
NoResult == [fn |-> ""]

(* The state of the worker before the pipeline is started *)
InitRun ==
    /\ pc = "idle"
    /\ hpc = "idle"
    /\ gi = ""
    /\ sess = NoSession
    /\ calls = <<>>
    /\ seuil = 0
    /\ projPt = <<>>
    /\ vdOut = NoAnswer
    /\ outPt = <<>>
    /\ ret = <<>>
    /\ raised = NoExc
    /\ anaExc = NoExc
    /\ exc = NoExc
    /\ log = <<>>
    /\ fs = {}
    /\ files = {}
    /\ locals = NoLocals
    /\ net = 0
    /\ subprocs = <<>>
    /\ ui = [mainVisible |-> TRUE, logWindow |-> FALSE, handler |-> FALSE,
             dialogs |-> <<>>]
    /\ resp = ""
    /\ threads = <<>>

Init ==
    /\ cfg \in Configs
    /\ InitRun
    /\ call = NoCall
    /\ result = NoResult

(* _executer_pipeline: withdraw the main window, open the log window, add   *)
(* the log handler and start the worker thread.                             *)
ExecuterPipeline ==
    /\ pc = "idle" /\ ui.mainVisible
    /\ ui' = [ui EXCEPT !.mainVisible = FALSE, !.logWindow = TRUE, !.handler = TRUE]
    /\ pc' = "validate"
    /\ UNCHANGED <<resp, threads, call, result, cfg, gi, log, exc, fs, files, locals, net, subprocs>>
    /\ UNCHANGED anaVars

(* The dict returned by validate_environment *)
InfosEnv == "GRASS_CMD, GRASS_PYTHON_PATH, GDAL_ENV"

(* Mutant: the PROJ directory is not checked *)
EnvChecksNoProj ==
    <<"OPENTOPOGRAPHY_API_KEY", "GRASS_GISBASE", "grass84.bat", "etc/python",
      "GDALWARP_CMD", "GDAL_DATA_EXT", "GDAL_BIN_EXT">>

(* The requirements in the order validate_environment tests them *)
EnvChecks ==
    <<"OPENTOPOGRAPHY_API_KEY", "GRASS_GISBASE", "grass84.bat", "etc/python",
      "GDALWARP_CMD", "GDAL_DATA_EXT", "PROJ_LIB_EXT", "GDAL_BIN_EXT">>

(* "not path or not check(path)": the value is falsy or nothing is there *)
CheckFails(c, r) ==
    \E d \in c.missing : d[1] = r /\ (d[2] \in {"None", ""} \/ d[2] = "absent")

(* Mutant: nothing is checked *)
ValidateEnvironmentLax(c) == [exc |-> NoExc, infos |-> InfosEnv]

(* validate_environment: the first test that fails raises EnvError; when    *)
(* none does, the execution contexts are returned.                          *)
ValidateEnvironment(c) ==
    IF \E i \in 1 .. Len(EnvChecks) : CheckFails(c, EnvChecks[i])
    THEN [exc |-> Exc("EnvError"), infos |-> None]
    ELSE [exc |-> NoExc, infos |-> InfosEnv]

(* The process environment, os.environ: each variable is the sequence of   *)
(* the entries of its value (separated by os.pathsep), <<>> when unset.     *)
NoEnviron == [GDAL_DATA |-> <<>>, PROJ_LIB |-> <<>>, PATH |-> <<>>,
              PYTHONHOME |-> <<>>, PYTHONPATH |-> <<>>]

Environs ==
    {NoEnviron,
     [NoEnviron EXCEPT !.PATH = <<"/usr/bin">>],
     [NoEnviron EXCEPT !.PATH = <<"/usr/bin">>, !.PYTHONPATH = <<"site">>,
                       !.GDAL_DATA = <<"gdal-old">>, !.PYTHONHOME = <<"py-old">>]}

(* Lines 119-143: the copy of os.environ with the GDAL variables, the first *)
(* of python_home_candidates that is a directory (home, "" when none is)    *)
(* and the engine's Python directory in front of PYTHONPATH.                *)
GdalEnv(environ, home) ==
    [environ EXCEPT
        !.GDAL_DATA = <<"GDAL_DATA_EXT">>,
        !.PROJ_LIB = <<"PROJ_LIB_EXT">>,
        !.PATH = <<"GDAL_BIN_EXT">> \o (IF @ = <<>> THEN <<"">> ELSE @),
        !.PYTHONHOME = IF home # "" THEN <<home>> ELSE @,
        !.PYTHONPATH = <<"GRASS_GISBASE/etc/python">> \o @]

(* Mutant: the environment is prepared before the checks are made *)
ValidateEnvironmentEnvironEager(c, environ, home) == GdalEnv(environ, home)

(* os.environ when validate_environment has returned or raised: line 146    *)
(* is reached only when no check raised.                                    *)
ValidateEnvironmentEnviron(c, environ, home) ==
    IF ValidateEnvironment(c).exc # NoExc THEN environ ELSE GdalEnv(environ, home)

ValidateCalls ==
    {[fn |-> "validate_environment", cfg |-> c, environ |-> e, home |-> h] :
        c \in {k \in Configs : k.thr = 0 /\ ~k.dev}, e \in Environs,
        h \in {"", "apps/Python312"}}

Validate ==
    /\ pc = "validate"
    /\ LET r == ValidateEnvironment(cfg) IN
          /\ exc' = r.exc
          /\ locals' = [locals EXCEPT !.infos_env = r.infos]
    /\ IF exc' = NoExc
       THEN pc' = "prepare" /\ log' = Append(log, LogRec("info", "environnement valide"))
       ELSE pc' = "except" /\ log' = log
    /\ UNCHANGED <<threads, call, result, cfg, gi>>
    /\ UNCHANGED anaVars
    /\ UNCHANGED <<fs, files, net, subprocs, ui, resp>>

(* Lines 398-408: bbox, the run's paths, the three makedirs *)
PrepareDirs == <<DossierSortie, DossierTemp, GrassDbDir>>

SeqRange(sq, n) == {sq[i] : i \in 1 .. n}

Prepare ==
    /\ pc = "prepare"
    /\ locals' = [locals EXCEPT !.dossier_temp = DossierTemp,
                                !.base_grass = BaseGrass]
    /\ \E k \in 0 .. Len(PrepareDirs) :
          /\ fs' = fs \cup SeqRange(PrepareDirs, Succeeded(PrepareDirs, k))
          /\ IF k = 0
             THEN pc' = "download" /\ exc' = NoExc
                  /\ log' = Append(log, LogRec("info", "dossiers prepares"))
             ELSE pc' = "except" /\ exc' = Exc("OSError") /\ log' = log
    /\ UNCHANGED <<resp, threads, call, result, cfg, gi, files, net, subprocs, ui>>
    /\ UNCHANGED anaVars

(* telecharger_mnt: one GET, streamed to disk.  The request gets no         *)
(* response ("network"), a response that raise_for_status rejects           *)
(* ("non2xx"), or a 2xx response whose body is streamed to the file: the    *)
(* stream may break ("midstream") and the file may refuse to open or to be  *)
(* written ("oserror").  The file holds <<1>> when the whole body is in it  *)
(* and <<0>> when a part is.                                                *)
DownloadOutcomes == {"2xx", "non2xx", "network", "midstream", "oserror"}

Complete == <<1>>
Partial == <<0>>

(* Mutant: the status of the response is not looked at *)
TelechargerMntNoStatusCheck(r, fl) ==
    CASE r \in {"2xx", "non2xx"} ->
           {[resp |-> r, files |-> WriteFile(fl, RawDem, Complete),
             exc |-> NoExc, path |-> RawDem,
             log |-> <<LogRec("info", "telechargement termine")>>]}
      [] r = "network" ->
           {[resp |-> "none", files |-> fl, exc |-> Exc("RequestException"),
             path |-> None, log |-> <<LogRec("error", "API OpenTopography")>>]}
      [] r = "midstream" ->
           {[resp |-> "2xx", files |-> WriteFile(fl, RawDem, Partial),
             exc |-> Exc("RequestException"), path |-> None,
             log |-> <<LogRec("error", "API OpenTopography")>>]}
      [] r = "oserror" ->
           {[resp |-> "2xx", files |-> f, exc |-> Exc("OSError"), path |-> None,
             log |-> <<LogRec("error", "ecriture fichier")>>] :
                f \in {fl, WriteFile(fl, RawDem, Partial)}}

(* Lines 135-160: what a request with outcome r leaves behind *)
TelechargerMnt(r, fl) ==
    CASE r = "2xx" ->
           {[resp |-> "2xx", files |-> WriteFile(fl, RawDem, Complete),
             exc |-> NoExc, path |-> RawDem,
             log |-> <<LogRec("info", "telechargement termine")>>]}
      [] r = "non2xx" ->
           {[resp |-> "non2xx", files |-> fl, exc |-> Exc("RequestException"),
             path |-> None, log |-> <<LogRec("error", "API OpenTopography")>>]}
      [] r = "network" ->
           {[resp |-> "none", files |-> fl, exc |-> Exc("RequestException"),
             path |-> None, log |-> <<LogRec("error", "API OpenTopography")>>]}
      [] r = "midstream" ->
           {[resp |-> "2xx", files |-> WriteFile(fl, RawDem, Partial),
             exc |-> Exc("RequestException"), path |-> None,
             log |-> <<LogRec("error", "API OpenTopography")>>]}
      [] r = "oserror" ->
           {[resp |-> "2xx", files |-> f, exc |-> Exc("OSError"), path |-> None,
             log |-> <<LogRec("error", "ecriture fichier")>>] :
                f \in {fl, WriteFile(fl, RawDem, Partial)}}

Download ==
    /\ pc = "download"
    /\ net' = net + 1
    /\ \E r \in DownloadOutcomes :
          \E d \in TelechargerMnt(r, files) :
             /\ resp' = d.resp
             /\ files' = d.files
             /\ exc' = d.exc
             /\ locals' = [locals EXCEPT !.mnt_brut = d.path]
             /\ log' = Append(log, LogRec("info", "debut telechargement")) \o d.log
             /\ pc' = IF d.exc = NoExc THEN "preprocess" ELSE "except"
    /\ UNCHANGED <<threads, call, result, cfg, gi, fs, subprocs, ui>>
    /\ UNCHANGED anaVars

(* pretraiter_mnt: gdalwarp in a subprocess, then the rasterio cleaning;    *)
(* any failure leaves as a RuntimeError chained to its cause.               *)
PreprocessOutcomes == {"ok", "CalledProcessError", "TimeoutExpired", "RasterioIOError"}

Preprocess ==
    /\ pc = "preprocess"
    /\ subprocs' = Append(subprocs, "gdalwarp")
    /\ \E r \in PreprocessOutcomes, res \in DemResolutions :
          CASE r = "ok" ->
                 /\ files' = WriteFile(files, CleanedDem, res)
                 /\ pc' = "import_grass" /\ exc' = NoExc
                 /\ log' = log \o <<LogRec("info", "sous-processus"),
                                    LogRec("info", "MNT nettoye")>>
            [] r = "RasterioIOError" ->
                 /\ files' = WriteFile(files, CleanedDem, res)
                 /\ pc' = "except" /\ exc' = Chained("RuntimeError", Exc(r))
                 /\ log' = Append(log, LogRec("info", "sous-processus"))
            [] OTHER ->
                 /\ files' = files
                 /\ pc' = "except" /\ exc' = Chained("RuntimeError", Exc(r))
                 /\ log' = log \o <<LogRec("info", "sous-processus"),
                                    LogRec("error", "sous-processus")>>
    /\ UNCHANGED <<resp, threads, call, result, cfg, gi, fs, locals, net, ui>>
    /\ UNCHANGED anaVars

(* init_grass_modules: the binding of gi.GrassError *)
GrassErrorBindings == {"grass.exceptions", "Exception"}

InitGrassModules ==
    /\ pc = "import_grass"
    /\ \/ /\ gi' = gi
          /\ pc' = "except" /\ exc' = Exc("ImportError")
          /\ log' = Append(log, LogRec("critical", "import GRASS"))
       \/ /\ \E b \in GrassErrorBindings :
                /\ gi' = b
                /\ log' = IF b = "Exception"
                          THEN log \o <<LogRec("warning", "fallback GrassError"),
                                        LogRec("info", "modules GRASS")>>
                          ELSE Append(log, LogRec("info", "modules GRASS"))
          /\ pc' = "init_grass" /\ exc' = NoExc
    /\ UNCHANGED <<threads, call, result, cfg>>
    /\ UNCHANGED anaVars
    /\ UNCHANGED envVars

(* initialiser_grass: create the location when it is not there, bind the    *)
(* session, then g.gisenv, whose failure is ignored.                        *)
InitialiserGrass ==
    /\ pc = "init_grass"
    /\ LET create == LocationPath \notin fs IN
       \/ \* grass -c fails
          /\ create
          /\ subprocs' = Append(subprocs, "grass -c")
          /\ fs' = fs \cup {GrassDbDir}
          /\ \E c \in {"CalledProcessError", "TimeoutExpired"} : exc' = Exc(c)
          /\ pc' = "except"
          /\ log' = Append(log, LogRec("info", "location"))
          /\ UNCHANGED <<hpc, sess, calls>>
       \/ \* GISBASE cannot be deduced, or gsetup.init fails
          /\ subprocs' = IF create THEN Append(subprocs, "grass -c") ELSE subprocs
          /\ fs' = fs \cup {GrassDbDir, LocationPath}
          /\ \E c \in {"RuntimeError", "ScriptError"} : exc' = Exc(c)
          /\ pc' = "except"
          /\ log' = Append(log, LogRec("info", "location"))
          /\ UNCHANGED <<hpc, sess, calls>>
       \/ \* the session is bound
          /\ subprocs' = IF create THEN Append(subprocs, "grass -c") ELSE subprocs
          /\ fs' = fs \cup {GrassDbDir, LocationPath}
          /\ sess' = NoSession
          /\ calls' = Append(calls, OpGisenv)
          /\ log' = log \o <<LogRec("info", "location"), LogRec("info", "session")>>
          /\ exc' = NoExc
          /\ pc' = "analyse" /\ hpc' = "import"
    /\ UNCHANGED <<resp, threads, call, result, cfg, gi, seuil, projPt, vdOut, outPt, ret, raised, anaExc>>
    /\ UNCHANGED <<files, locals, net, ui>>

(* export_grass_results: three v.out.ogr into one GeoPackage, then the     *)
(* raster; lines 31-36 are its two except clauses.                          *)
(* Mutant: every layer is appended, the first one too *)
ExportOpsAllAppend ==
    <<OpOutOgr("rivieres_clipped", "rivieres", "a"),
      OpOutOgr("outlet_point_clipped", "exutoire", "a"),
      OpOutOgr("main_basin_diss", "main_basin", "a"),
      OpOutGdal>>

ExportOps ==
    <<OpOutOgr("rivieres_clipped", "rivieres", ""),
      OpOutOgr("outlet_point_clipped", "exutoire", "a"),
      OpOutOgr("main_basin_diss", "main_basin", "a"),
      OpOutGdal>>

GpkgFile == "hydro_results.gpkg"
TifFile == "MNT_decoupe_bassin_versant.tif"

HandleExportError(binding, e) ==
    IF IsGrassError(binding, e)
    THEN [level |-> "error", out |-> e]
    ELSE [level |-> "critical", out |-> Chained("RuntimeError", e)]

Min(a, b) == IF a <= b THEN a ELSE b

ExportedFiles(fl, n) ==
    LET g == IF n >= 1 THEN WriteFile(fl, GpkgFile, <<Min(n, 3)>>) ELSE fl
    IN  IF n >= 4 THEN WriteFile(g, TifFile, <<>>) ELSE g

Export ==
    /\ pc = "export"
    /\ \/ \* the output directory cannot be created
          /\ LET h == HandleExportError(gi, Chained("RuntimeError", Exc("OSError"))) IN
                /\ exc' = h.out
                /\ log' = Append(log, LogRec(h.level, "export"))
          /\ pc' = "except"
          /\ UNCHANGED <<calls, files, ui>>
       \/ \E k \in 0 .. Len(ExportOps) :
             /\ calls' = calls \o Issued(ExportOps, k)
             /\ files' = ExportedFiles(files, Succeeded(ExportOps, k))
             /\ IF k = 0
                THEN /\ exc' = NoExc
                     /\ log' = Append(log, LogRec("info", "exports finalises"))
                     /\ ui' = [ui EXCEPT !.dialogs = Append(@, "showinfo")]
                     /\ pc' = "finally"
                ELSE /\ \E c \in EngineFailures :
                           LET h == HandleExportError(gi, Exc(c)) IN
                           /\ exc' = h.out
                           /\ log' = log \o
                                 <<LogRec("error", IF k <= 3 THEN "echec export couche"
                                                            ELSE "echec export MNT"),
                                   LogRec(h.level, "export")>>
                     /\ ui' = ui
                     /\ pc' = "except"
    /\ UNCHANGED <<resp, threads, call, result, cfg, gi, fs, locals, net, subprocs>>
    /\ UNCHANGED <<hpc, sess, seuil, projPt, vdOut, outPt, ret, raised, anaExc>>

(* except Exception: the failure is shown in a message box *)
WorkerExcept ==
    /\ pc = "except"
    /\ ui' = [ui EXCEPT !.dialogs = Append(@, "showerror")]
    /\ pc' = "finally"
    /\ UNCHANGED <<resp, threads, call, result, cfg, gi, exc, log, fs, files, locals, net, subprocs>>
    /\ UNCHANGED anaVars

(* finally, lines 451-456: the log window goes, the main window is back *)
WorkerFinally ==
    /\ pc = "finally"
    /\ ui' = [ui EXCEPT !.handler = FALSE, !.logWindow = FALSE, !.mainVisible = TRUE]
    /\ pc' = IF cfg.dev THEN "done" ELSE "cleanup"
    /\ UNCHANGED <<resp, threads, call, result, cfg, gi, exc, log, fs, files, locals, net, subprocs>>
    /\ UNCHANGED anaVars

(* _nettoyer_temporaires: each of the given paths that is a directory is   *)
(* removed; a removal that fails is logged as a warning and skipped.        *)
RECURSIVE NettoyerTemporaires(_, _, _)
NettoyerTemporaires(st, chemins, failing) ==
    IF chemins = <<>> THEN st
    ELSE LET chemin == Head(chemins)
             nxt == IF chemin # None /\ chemin \in st.fs
                    THEN IF chemin \in failing
                         THEN [st EXCEPT !.log = Append(@, LogRec("warning", chemin))]
                         ELSE [fs |-> st.fs \ {chemin},
                               files |-> IF chemin = DossierTemp
                                         THEN {f \in st.files : f.name \notin TempFiles}
                                         ELSE st.files,
                               log |-> Append(st.log, LogRec("info", chemin))]
                    ELSE st
         IN  NettoyerTemporaires(nxt, Tail(chemins), failing)

CleanupPaths(l) == <<l.dossier_temp, l.base_grass>>

Cleanup ==
    /\ pc = "cleanup"
    /\ \E failing \in SUBSET {DossierTemp, BaseGrass, LocationPath} :
          LET st == NettoyerTemporaires([fs |-> fs, files |-> files, log |-> log],
                                        CleanupPaths(locals), failing) IN
          /\ fs' = st.fs
          /\ files' = st.files
          /\ log' = st.log
    /\ pc' = "done"
    /\ UNCHANGED <<resp, threads, call, result, cfg, gi, exc, locals, net, subprocs, ui>>
    /\ UNCHANGED anaVars

----------------------------------------------------------------------------
(* Configuration files: config_io.py *)

(* A Python value: t is its type, s the characters of a str, n the number   *)
(* of an int or bool, or the number of elements of a collection.            *)
Val(t, s, n) == [t |-> t, s |-> s, n |-> n]
PyNone == Val("NoneType", <<>>, 0)
PyStr(s) == Val("str", s, 0)
PyInt(n) == Val("int", <<>>, n)
PyBool(b) == Val("bool", <<>>, IF b THEN 1 ELSE 0)
PyColl(t, n) == Val(t, <<>>, n)

(* str.strip() *)
RECURSIVE LStripStr(_)
LStripStr(s) ==
    IF s # <<>> /\ Head(s) = " " THEN LStripStr(Tail(s)) ELSE s

RECURSIVE RStripStr(_)
RStripStr(s) ==
    IF s # <<>> /\ s[Len(s)] = " "
    THEN RStripStr(SubSeq(s, 1, Len(s) - 1))
    ELSE s

StrStrip(s) == RStripStr(LStripStr(s))

(* Mutant: the truth value of the user value decides, so 0 and False fail *)
IsValidConfigValueTruthy(v) ==
    IF v.t = "NoneType" THEN FALSE
    ELSE IF v.t = "str" THEN StrStrip(v.s) # <<>>
    ELSE v.n # 0

(* _is_valid_config_value *)
IsValidConfigValue(v) ==
    IF v.t = "NoneType" THEN FALSE
    ELSE IF v.t = "str" /\ StrStrip(v.s) = <<>> THEN FALSE
    ELSE IF v.t \in {"list", "dict", "set"} /\ v.n = 0 THEN FALSE
    ELSE TRUE

(* A dict is a function from its keys; dict.get(key) *)
Get(d, k) == IF k \in DOMAIN d THEN d[k] ELSE PyNone

Dicts(keys, vals) == UNION {[ks -> vals] : ks \in SUBSET keys}

(* merge_configs *)
MergeConfigs(user_config, default_config) ==
    [key \in (DOMAIN default_config) \cup (DOMAIN user_config) |->
        IF IsValidConfigValue(Get(user_config, key))
        THEN Get(user_config, key)
        ELSE Get(default_config, key)]

MergeKeys == {"K1", "K2"}

MergeUserValues ==
    {PyNone, PyStr(<<>>), PyStr(<<" ">>), PyStr(<<"a">>), PyStr(<<" ", "a", " ">>),
     PyInt(0), PyInt(1), PyBool(FALSE), PyColl("list", 0), PyColl("list", 1),
     PyColl("dict", 0), PyColl("set", 0), PyColl("tuple", 0)}

MergeDefaultValues == {PyNone, PyStr(<<>>), PyStr(<<"d">>), PyInt(1)}

MergeCalls ==
    {[fn |-> "merge_configs", user |-> u, default |-> d] :
        u \in Dicts(MergeKeys, MergeUserValues),
        d \in Dicts(MergeKeys, MergeDefaultValues)}

(* The process environment: a function from the names that are set to      *)
(* their values; os.getenv(name, "")                                        *)
Getenv(env, name) == IF name \in DOMAIN env THEN env[name] ELSE <<>>

Environments ==
    {[n \in {} |-> <<>>], [n \in {<<"A">>} |-> <<"v">>], [n \in {<<"A">>} |-> <<>>],
     [n \in {<<"A">>} |-> <<" ">>]}

(* _ENV_VAR_PATTERN over the characters of the model: "${env:", a name      *)
(* (a letter or "_", then letters, digits or "_"), "}" and nothing else.    *)
EnvPrefix == <<"$", "{", "e", "n", "v", ":">>
EnvRef(name) == EnvPrefix \o name \o <<"}">>
NameStart == {"A", "B", "a", "d", "e", "n", "v", "x", "_"}
NameChar == NameStart \cup {Digits[i] : i \in 1 .. Len(Digits)}

(* _ENV_VAR_PATTERN.match(s).group(1), or the empty string without a match *)
EnvVarMatch(s) ==
    IF /\ Len(s) >= Len(EnvPrefix) + 2
       /\ SubSeq(s, 1, Len(EnvPrefix)) = EnvPrefix
       /\ s[Len(s)] = "}"
       /\ s[Len(EnvPrefix) + 1] \in NameStart
       /\ \A i \in Len(EnvPrefix) + 2 .. Len(s) - 1 : s[i] \in NameChar
    THEN SubSeq(s, Len(EnvPrefix) + 1, Len(s) - 1)
    ELSE <<>>

(* _resolve_env_vars *)
ResolveEnvVars(value, env) ==
    IF value.t = "str" /\ EnvVarMatch(StrStrip(value.s)) # <<>>
    THEN PyStr(Getenv(env, EnvVarMatch(StrStrip(value.s))))
    ELSE value

(* A YAML document as yaml.safe_dump writes it and yaml.safe_load reads it: *)
(* a mapping from keys to scalars, each plain or quoted.                    *)
Plain(text) == [style |-> "plain", text |-> text]
Quoted(text) == [style |-> "quoted", text |-> text]

NullTexts == {<<>>, <<"~">>, <<"n", "u", "l", "l">>}
TrueText == <<"t", "r", "u", "e">>
FalseText == <<"f", "a", "l", "s", "e">>
IsIntText(text) == Len(text) = 1 /\ IsNumeric(text[1])

(* yaml.safe_load on one scalar: a quoted scalar is a str, a plain one has  *)
(* the type its text resolves to.                                           *)
YamlLoadScalar(sc) ==
    IF sc.style = "quoted" THEN PyStr(sc.text)
    ELSE IF sc.text \in NullTexts THEN PyNone
    ELSE IF sc.text \in {TrueText, FalseText} THEN PyBool(sc.text = TrueText)
    ELSE IF IsIntText(sc.text) THEN PyInt(ParseFloat(sc.text[1]))
    ELSE PyStr(sc.text)

(* yaml.safe_dump on one scalar: a str is quoted when it is empty, has      *)
(* outer blanks or would be read back as another type.                      *)
YamlDumpScalar(v) ==
    CASE v.t = "NoneType" -> Plain(<<"n", "u", "l", "l">>)
      [] v.t = "bool" -> Plain(IF v.n = 1 THEN TrueText ELSE FalseText)
      [] v.t = "int" -> Plain(<<NumStr(v.n)>>)
      [] v.t = "str" ->
            IF \/ v.s = <<>> \/ v.s[1] = " " \/ v.s[Len(v.s)] = " "
               \/ YamlLoadScalar(Plain(v.s)).t # "str"
            THEN Quoted(v.s)
            ELSE Plain(v.s)

(* The fields of Config kept in the model, and the values given to them *)
ConfigFields == {"SITE_NAME", "EPSG_CIBLE"}

ConfigValues ==
    {PyNone, PyStr(<<>>), PyStr(<<" ">>), PyStr(<<"a">>), PyStr(<<" ", "a", " ">>),
     PyStr(<<"1">>), PyStr(TrueText), PyStr(<<"n", "u", "l", "l">>),
     PyStr(EnvRef(<<"A">>)), PyStr(<<" ">> \o EnvRef(<<"A">>) \o <<" ">>),
     PyStr(EnvRef(<<"B">>)), PyInt(0), PyInt(1), PyBool(FALSE), PyBool(TRUE)}

(* Mutant: the fields are kept by their truth value, so 0 and False go *)
SaveConfigTruthy(config) ==
    LET kept == {k \in DOMAIN config : IsValidConfigValueTruthy(config[k])}
    IN  [k \in kept |-> YamlDumpScalar(config[k])]

(* save_config with minimal_output=True: the document written *)
SaveConfig(config) ==
    LET kept == {k \in DOMAIN config : IsValidConfigValue(config[k])}
    IN  [k \in kept |-> YamlDumpScalar(config[k])]

(* _load_single_config: raw_config and the dict returned *)
RawConfig(doc) == [key \in DOMAIN doc |-> YamlLoadScalar(doc[key])]

(* Mutant: the references are left as they are *)
LoadSingleConfigUnresolved(doc, env) == RawConfig(doc)

LoadSingleConfig(doc, env) ==
    [key \in DOMAIN doc |-> ResolveEnvVars(RawConfig(doc)[key], env)]

(* load_config_pair: the merged dict makes the Config; a key that is no     *)
(* field of Config is a TypeError, which leaves as ConfigIOError.           *)
LoadConfigPair(userDoc, defaultDoc, env) ==
    LET merged == MergeConfigs(LoadSingleConfig(userDoc, env),
                               LoadSingleConfig(defaultDoc, env))
    IN  IF DOMAIN merged \subseteq ConfigFields
        THEN [exc |-> NoExc, config |-> [f \in ConfigFields |-> Get(merged, f)]]
        ELSE [exc |-> Chained("ConfigIOError", Exc("TypeError")),
              config |-> [f \in {} |-> PyNone]]

EmptyDoc == [k \in {} |-> Plain(<<>>)]

RoundTripCalls ==
    {[fn |-> "save_config, load_config_pair", config |-> c, env |-> e] :
        c \in [ConfigFields -> ConfigValues], e \in Environments}

(* The scalars of the documents loaded *)
DocScalars ==
    {Plain(<<"a">>), Plain(<<"1">>), Plain(TrueText), Plain(<<"~">>),
     Plain(EnvRef(<<"A">>)), Plain(EnvRef(<<"B">>)), Plain(EnvRef(<<"1">>)),
     Plain(EnvRef(<<"A", "_", "1">>)), Plain(EnvRef(<<"A">>) \o <<"x">>),
     Plain(EnvRef(<<>>)),
     Quoted(<<>>), Quoted(<<" ">>), Quoted(<<" ", "a", " ">>), Quoted(<<"1">>),
     Quoted(EnvRef(<<"A">>)), Quoted(<<" ">> \o EnvRef(<<"A">>) \o <<" ">>)}

(* The scalars of the default document *)
DefaultScalars ==
    {Plain(<<"d">>), Plain(<<"1">>), Quoted(<<>>), Quoted(<<" ">>),
     Plain(EnvRef(<<"A">>))}

PairCalls ==
    {[fn |-> "load_config_pair", user |-> u, default |-> d, env |-> e] :
        u \in Dicts({"SITE_NAME"}, DocScalars),
        d \in Dicts({"SITE_NAME"}, DefaultScalars), e \in Environments}

LoadCalls ==
    {[fn |-> "_load_single_config", doc |-> d, env |-> e] :
        d \in Dicts(MergeKeys, DocScalars), e \in Environments}

----------------------------------------------------------------------------
(* Geo-bbox calculator: download_dem.py                                     *)
(* Angles are in thousandths of a degree, half-widths in whole km, cosines  *)
(* in thousandths; a quotient is rounded to the nearest unit, as the float  *)
(* division rounds to the nearest float.                                    *)

EarthDegreeKm == 111
(* the 0.01 of max(coslat, 0.01), in thousandths *)
CosFloor == 10

Abs(x) == IF x >= 0 THEN x ELSE 0 - x

Latitudes ==
    {0 - 90000, 0 - 89500, 0 - 89000, 0 - 60000, 0, 30000, 60000, 89000,
     89500, 90000}
Longitudes == {0 - 180000, 0, 179000, 180000}
HalfWidths == (0 .. MaxHalfKm) \cup {EarthDegreeKm}

(* np.cos(np.radians(lat)) at the latitudes of the model, in thousandths *)
CosMilli(lat) ==
    CASE Abs(lat) = 0 -> 1000
      [] Abs(lat) = 30000 -> 866
      [] Abs(lat) = 60000 -> 500
      [] Abs(lat) = 89000 -> 17
      [] Abs(lat) = 89500 -> 9
      [] Abs(lat) = 90000 -> 0

(* Mutant: west and east are exchanged *)
CalculateBboxWgs84Swapped(lat, lon, size_km) ==
    LET dlat == RoundDiv(size_km * 1000, EarthDegreeKm)
        dlon == RoundDiv(size_km * 1000 * 1000,
                         EarthDegreeKm * Max(CosMilli(lat), CosFloor))
    IN  <<lon + dlon, lat - dlat, lon - dlon, lat + dlat>>

(* Mutant: the cosine is floored at 0.001 *)
CalculateBboxWgs84LowFloor(lat, lon, size_km) ==
    LET dlat == RoundDiv(size_km * 1000, EarthDegreeKm)
        dlon == RoundDiv(size_km * 1000 * 1000,
                         EarthDegreeKm * Max(CosMilli(lat), 1))
    IN  <<lon - dlon, lat - dlat, lon + dlon, lat + dlat>>

(* calculate_bbox_wgs84: (west, south, east, north) *)
CalculateBboxWgs84(lat, lon, size_km) ==
    LET dlat == RoundDiv(size_km * 1000, EarthDegreeKm)
        dlon == RoundDiv(size_km * 1000 * 1000,
                         EarthDegreeKm * Max(CosMilli(lat), CosFloor))
    IN  <<lon - dlon, lat - dlat, lon + dlon, lat + dlat>>

BboxCalls ==
    {[fn |-> "calculate_bbox_wgs84", lat |-> lat, lon |-> lon, size_km |-> km] :
        lat \in Latitudes, lon \in Longitudes, km \in HalfWidths}

----------------------------------------------------------------------------
(* DEM cleaning: preprocess_dem.py                                          *)
(* A raster is band 1 as a sequence of cells, the NoData value of the file  *)
(* and its "nodata" tag; a NoData value or tag is set or not.               *)

PlausibleMin == 0 - 100
PlausibleMax == 10000

Unset == [set |-> FALSE, v |-> 0]
SetTo(v) == [set |-> TRUE, v |-> v]

CellValues == {0 - 9999, PlausibleMin - 1, PlausibleMin, 0, PlausibleMax, PlausibleMax + 1}
NodataValues == {0 - 9999, 0}

Bands == UNION {[1 .. n -> CellValues] : n \in 0 .. MaxCells}

Rasters ==
    {[band |-> b, nodata |-> nd, tag |-> Unset] :
        b \in Bands, nd \in {Unset} \cup {SetTo(v) : v \in NodataValues}}

(* ds.read(1, masked=True): the cells equal to the NoData value of the file *)
(* are masked                                                               *)
ReadMasked(ds) ==
    [i \in 1 .. Len(ds.band) |->
        [v |-> ds.band[i], masked |-> ds.nodata.set /\ ds.band[i] = ds.nodata.v]]

(* _mettre_a_jour_metadonnees_nodata: the tag is written; the assignment of *)
(* ds.nodata may fail, and its failure is ignored.                          *)
MettreAJourMetadonneesNodata(ds, nodata_value, setter_fails) ==
    [ds EXCEPT !.tag = SetTo(nodata_value),
               !.nodata = IF setter_fails THEN @ ELSE SetTo(nodata_value)]

(* Mutant: the two ends of the range are masked too *)
NettoyageValeursRasterioInclusive(ds, nodata_value, setter_fails) ==
    LET arr == ReadMasked(ds)
        filled == [i \in 1 .. Len(arr) |->
                     IF arr[i].masked \/ arr[i].v <= PlausibleMin
                                     \/ arr[i].v >= PlausibleMax
                     THEN nodata_value ELSE arr[i].v]
    IN  MettreAJourMetadonneesNodata([ds EXCEPT !.band = filled],
                                     nodata_value, setter_fails)

(* _nettoyage_valeurs_rasterio: mask, fill, write back, metadata *)
NettoyageValeursRasterio(ds, nodata_value, setter_fails) ==
    LET arr == ReadMasked(ds)
        filled == [i \in 1 .. Len(arr) |->
                     IF arr[i].masked \/ arr[i].v < PlausibleMin
                                     \/ arr[i].v > PlausibleMax
                     THEN nodata_value ELSE arr[i].v]
    IN  MettreAJourMetadonneesNodata([ds EXCEPT !.band = filled],
                                     nodata_value, setter_fails)

(* safe_subprocess(gdalwarp ..., timeout=900): subprocess.run with          *)
(* check=True returns on exit status 0 and raises otherwise.                *)
SubprocessOutcomes == {"exit 0", "exit 1", "timeout"}

SafeSubprocess(outcome) ==
    CASE outcome = "exit 0" -> NoExc
      [] outcome = "exit 1" -> Exc("CalledProcessError")
      [] outcome = "timeout" -> Exc("TimeoutExpired")

(* Mutant: the exit status and the timeout are not looked at *)
PretraiterMntUnchecked(ds, nodata_value, outcome, setter_fails, io_fails) ==
    IF io_fails
    THEN [exc |-> Chained("RuntimeError", Exc("RasterioIOError")), path |-> None,
          ds |-> ds, trace |-> <<"gdalwarp", outcome, "rasterio.open">>]
    ELSE [exc |-> NoExc, path |-> CleanedDem,
          ds |-> NettoyageValeursRasterio(ds, nodata_value, setter_fails),
          trace |-> <<"gdalwarp", outcome, "rasterio.open">>]

(* pretraiter_mnt, lines 130-140: gdalwarp, then the cleaning of the raster *)
(* ds it wrote; whatever is raised leaves as a RuntimeError chained to it.  *)
(* trace lists what was done: the subprocess started, how it ended, the     *)
(* raster opened.                                                           *)
PretraiterMnt(ds, nodata_value, outcome, setter_fails, io_fails) ==
    LET sub == SafeSubprocess(outcome) IN
    IF sub # NoExc
    THEN [exc |-> Chained("RuntimeError", sub), path |-> None, ds |-> ds,
          trace |-> <<"gdalwarp", outcome>>]
    ELSE IF io_fails
    THEN [exc |-> Chained("RuntimeError", Exc("RasterioIOError")), path |-> None,
          ds |-> ds, trace |-> <<"gdalwarp", outcome, "rasterio.open">>]
    ELSE [exc |-> NoExc, path |-> CleanedDem,
          ds |-> NettoyageValeursRasterio(ds, nodata_value, setter_fails),
          trace |-> <<"gdalwarp", outcome, "rasterio.open">>]

PreprocessCalls ==
    {[fn |-> "pretraiter_mnt", ds |-> ds, nodata_value |-> nd, outcome |-> o,
      setter_fails |-> sf, io_fails |-> io] :
        ds \in {r \in Rasters : Len(r.band) <= 1}, nd \in NodataValues,
        o \in SubprocessOutcomes, sf \in BOOLEAN, io \in BOOLEAN}

CleaningCalls ==
    {[fn |-> "_nettoyage_valeurs_rasterio", ds |-> ds, nodata_value |-> nd,
      setter_fails |-> sf, io_fails |-> io] :
        ds \in Rasters, nd \in NodataValues, sf \in BOOLEAN, io \in BOOLEAN}

----------------------------------------------------------------------------
(* The pure functions, each called on its own *)

runVars == <<cfg, pc, hpc, gi, sess, calls, seuil, projPt, vdOut, outPt, ret,
             raised, anaExc, exc, log, fs, files, locals, net, subprocs, ui,
             resp, threads>>

IdleConfig == [thr |-> 0, dev |-> FALSE, missing |-> {}]

PureCalls ==
    MergeCalls \cup RoundTripCalls \cup LoadCalls \cup BboxCalls \cup CleaningCalls
        \cup PreprocessCalls \cup ValidateCalls \cup PairCalls

PureInit ==
    /\ cfg = IdleConfig
    /\ InitRun
    /\ call \in PureCalls
    /\ result = NoResult

MergeConfigsCall ==
    /\ call.fn = "merge_configs" /\ result.fn = ""
    /\ result' = [fn |-> call.fn, value |-> MergeConfigs(call.user, call.default)]
    /\ UNCHANGED <<call, runVars>>

(* save_config to a file, then load_config_pair of that file against an    *)
(* empty default document                                                   *)
RoundTripCall ==
    /\ call.fn = "save_config, load_config_pair" /\ result.fn = ""
    /\ LET doc == SaveConfig(call.config)
           loaded == LoadConfigPair(doc, EmptyDoc, call.env)
       IN  result' = [fn |-> call.fn, doc |-> doc, exc |-> loaded.exc,
                      config |-> loaded.config]
    /\ UNCHANGED <<call, runVars>>

LoadSingleConfigCall ==
    /\ call.fn = "_load_single_config" /\ result.fn = ""
    /\ result' = [fn |-> call.fn, raw |-> RawConfig(call.doc),
                  value |-> LoadSingleConfig(call.doc, call.env)]
    /\ UNCHANGED <<call, runVars>>

CalculateBboxCall ==
    /\ call.fn = "calculate_bbox_wgs84" /\ result.fn = ""
    /\ result' = [fn |-> call.fn,
                  bbox |-> CalculateBboxWgs84(call.lat, call.lon, call.size_km)]
    /\ UNCHANGED <<call, runVars>>

(* the cleaning succeeds, or the raster cannot be opened and is left alone *)
NettoyageCall ==
    /\ call.fn = "_nettoyage_valeurs_rasterio" /\ result.fn = ""
    /\ result' =
          IF call.io_fails
          THEN [fn |-> call.fn, exc |-> Exc("RasterioIOError"), ds |-> call.ds,
                log |-> <<>>]
          ELSE [fn |-> call.fn, exc |-> NoExc,
                ds |-> NettoyageValeursRasterio(call.ds, call.nodata_value,
                                                call.setter_fails),
                log |-> <<LogRec("info", "MNT nettoye")>>]
    /\ UNCHANGED <<call, runVars>>

PretraiterMntCall ==
    /\ call.fn = "pretraiter_mnt" /\ result.fn = ""
    /\ LET r == PretraiterMnt(call.ds, call.nodata_value, call.outcome,
                              call.setter_fails, call.io_fails)
       IN  result' = [fn |-> call.fn, exc |-> r.exc, path |-> r.path, ds |-> r.ds,
                      trace |-> r.trace]
    /\ UNCHANGED <<call, runVars>>

ValidateEnvironmentCall ==
    /\ call.fn = "validate_environment" /\ result.fn = ""
    /\ LET r == ValidateEnvironment(call.cfg) IN
          result' = [fn |-> call.fn, exc |-> r.exc, infos |-> r.infos,
                     environ |-> ValidateEnvironmentEnviron(call.cfg, call.environ,
                                                            call.home)]
    /\ UNCHANGED <<call, runVars>>

LoadConfigPairCall ==
    /\ call.fn = "load_config_pair" /\ result.fn = ""
    /\ LET loaded == LoadConfigPair(call.user, call.default, call.env) IN
          result' = [fn |-> call.fn, exc |-> loaded.exc, config |-> loaded.config,
                     user |-> LoadSingleConfig(call.user, call.env),
                     default |-> LoadSingleConfig(call.default, call.env)]
    /\ UNCHANGED <<call, runVars>>

PureNext ==
    \/ MergeConfigsCall
    \/ RoundTripCall
    \/ LoadSingleConfigCall
    \/ CalculateBboxCall
    \/ NettoyageCall
    \/ PretraiterMntCall
    \/ ValidateEnvironmentCall
    \/ LoadConfigPairCall

PureSpec == PureInit /\ [][PureNext]_vars

----------------------------------------------------------------------------
Next ==
    \/ ExecuterPipeline
    \/ Validate
    \/ Prepare
    \/ Download
    \/ Preprocess
    \/ InitGrassModules
    \/ InitialiserGrass
    \/ ImportAndSetupDem
    \/ RunHydrologicalAnalysis
    \/ CalculateThresholdStep
    \/ ExtractStreamNetwork
    \/ ProcessInputPoint
    \/ DelineateWatershed
    \/ PrepareSwatOutlet
    \/ PostProcessing
    \/ AnalyseExcept
    \/ Export
    \/ WorkerExcept
    \/ WorkerFinally
    \/ Cleanup

Spec == Init /\ [][Next]_vars

----------------------------------------------------------------------------
(* The launch button and the worker threads it starts: _executer_pipeline   *)
(* and the control flow of _travail in gui.py.  A thread is a record: pc    *)
(* its position in _travail, dev the DEV_MODE of the configuration the      *)
(* click collected, op the engine operation it has in progress ("" when     *)
(* none), phase the number of engine phases it has behind it, and mask      *)
(* whether the raster mask is applied in its session.                       *)

(* The engine calls of one run, in order: initialiser_grass, stages 1 to 8d *)
(* of analyse_hydro_grass (issued one after the other by the one thread),   *)
(* the three calls of stage 8e, export_grass_results.                       *)
EnginePhases == <<"g.gisenv", "stages 1-8d", "r.mask", "r.mapcalc", "r.mask -r",
                  "exports">>

NewThread(dev) == [pc |-> "try", dev |-> dev, op |-> "", phase |-> 0, mask |-> FALSE]

guiFrame == <<cfg, pc, hpc, gi, sess, calls, seuil, projPt, vdOut, outPt, ret,
              raised, anaExc, exc, log, fs, files, locals, net, subprocs,
              resp, call, result>>

GuiInit ==
    /\ cfg = IdleConfig
    /\ InitRun
    /\ call = NoCall
    /\ result = NoResult

(* Mutant: the button can be used while the main window is withdrawn *)
LaunchClickAnytime ==
    /\ Len(threads) < MaxLaunches
    /\ ui' = [ui EXCEPT !.mainVisible = FALSE, !.logWindow = TRUE, !.handler = TRUE]
    /\ \E dev \in BOOLEAN : threads' = Append(threads, NewThread(dev))
    /\ UNCHANGED guiFrame

(* A click on the launch button, which needs the main window on screen:     *)
(* lines 356-388 and 461, the window is withdrawn, the log window opened    *)
(* and a new daemon thread started.                                         *)
LaunchClick ==
    /\ ui.mainVisible
    /\ Len(threads) < MaxLaunches
    /\ ui' = [ui EXCEPT !.mainVisible = FALSE, !.logWindow = TRUE, !.handler = TRUE]
    /\ \E dev \in BOOLEAN : threads' = Append(threads, NewThread(dev))
    /\ UNCHANGED guiFrame

(* Lines 394-416: validation, directories, download, preprocessing and the  *)
(* import of the engine's modules; none of them calls the engine.           *)
TravailTry ==
    \E i \in 1 .. Len(threads) :
    /\ threads[i].pc = "try"
    /\ \E next \in {"engine", "except"} :
          threads' = [threads EXCEPT ![i].pc = next]
    /\ UNCHANGED <<ui, guiFrame>>

(* The thread issues its next engine call *)
TravailBeginOp ==
    \E i \in 1 .. Len(threads) :
    /\ threads[i].pc = "engine" /\ threads[i].op = ""
    /\ threads' = [threads EXCEPT ![i].op = EnginePhases[threads[i].phase + 1]]
    /\ UNCHANGED <<ui, guiFrame>>

(* The call returns or raises.  A failure of g.gisenv is ignored by         *)
(* initialiser_grass; any other failure leaves the try body.  After the     *)
(* exports the success box is scheduled (lines 431-436).                    *)
TravailEndOp ==
    \E i \in 1 .. Len(threads) :
    LET t == threads[i] IN
    /\ t.op # ""
    /\ \E ok \in BOOLEAN :
          IF ok \/ t.op = "g.gisenv"
          THEN LET last == t.phase + 1 = Len(EnginePhases) IN
               /\ threads' = [threads EXCEPT
                     ![i].op = "",
                     ![i].phase = t.phase + 1,
                     ![i].mask = IF ok /\ t.op = "r.mask" THEN TRUE
                                 ELSE IF t.op = "r.mask -r" THEN FALSE ELSE t.mask,
                     ![i].pc = IF last THEN "finally" ELSE "engine"]
               /\ ui' = IF last THEN [ui EXCEPT !.dialogs = Append(@, "showinfo")]
                                ELSE ui
          ELSE /\ threads' = [threads EXCEPT ![i].op = "", ![i].pc = "except"]
               /\ ui' = ui
    /\ UNCHANGED guiFrame

(* except Exception, lines 440-446 *)
TravailExcept ==
    \E i \in 1 .. Len(threads) :
    /\ threads[i].pc = "except"
    /\ ui' = [ui EXCEPT !.dialogs = Append(@, "showerror")]
    /\ threads' = [threads EXCEPT ![i].pc = "finally"]
    /\ UNCHANGED guiFrame

(* finally, lines 449-456: handler removed, log window destroyed, main      *)
(* window back on screen; the cleanup comes after that.                     *)
TravailFinally ==
    \E i \in 1 .. Len(threads) :
    /\ threads[i].pc = "finally"
    /\ ui' = [ui EXCEPT !.handler = FALSE, !.logWindow = FALSE, !.mainVisible = TRUE]
    /\ threads' = [threads EXCEPT ![i].pc = IF threads[i].dev THEN "ended" ELSE "cleanup"]
    /\ UNCHANGED guiFrame

(* Lines 458-459: _nettoyer_temporaires, after which the thread ends *)
TravailCleanup ==
    \E i \in 1 .. Len(threads) :
    /\ threads[i].pc = "cleanup"
    /\ threads' = [threads EXCEPT ![i].pc = "ended"]
    /\ UNCHANGED <<ui, guiFrame>>

GuiNext ==
    \/ LaunchClick
    \/ TravailTry
    \/ TravailBeginOp
    \/ TravailEndOp
    \/ TravailExcept
    \/ TravailFinally
    \/ TravailCleanup

GuiSpec == GuiInit /\ [][GuiNext]_vars

----------------------------------------------------------------------------
(* Properties *)

IsAnalyseCall(op) == op.cmd \notin {"g.gisenv", "v.out.ogr", "r.out.gdal"}
AnalyseCalls == SelectSeq(calls, IsAnalyseCall)
IsExportCall(op) == op.cmd \in {"v.out.ogr", "r.out.gdal"}
ExportCalls == SelectSeq(calls, IsExportCall)
Cmds(ops) == [i \in 1 .. Len(ops) |-> ops[i].cmd]
IsPrefix(a, b) == Len(a) <= Len(b) /\ a = SubSeq(b, 1, Len(a))
Logged(level, msg) == \E i \in 1 .. Len(log) : log[i] = LogRec(level, msg)
CellArea == sess.region.ewres * sess.region.nsres
ThresholdM2 == cfg.thr * M2PerHalf

(* C1 as stated: the threshold is the quotient rounded to the nearest       *)
(* integer, floored at 1.                                                   *)
C1_RoundedThreshold ==
    seuil # 0 => seuil = Max(1, RoundDiv(ThresholdM2, CellArea))

(* C1 amended: the threshold is the quotient truncated toward zero and then *)
(* floored at 1: it is 1 when the area is smaller than two cells, and       *)
(* otherwise the largest n with n cells not larger than the area.           *)
C1_TruncatedThreshold ==
    seuil # 0 =>
        IF ThresholdM2 < 2 * CellArea
        THEN seuil = 1
        ELSE /\ seuil * CellArea <= ThresholdM2
             /\ ThresholdM2 < (seuil + 1) * CellArea

C1_Witness ==
    /\ seuil # 0
    /\ seuil # Max(1, RoundDiv(ThresholdM2, CellArea))

(* C2: the threshold passed to r.stream.extract is an integer >= 1 for     *)
(* every threshold_km2, also 0 and negative ones; it is 1111 for 30 x 30    *)
(* and 1.0 km2, and 1 for 0 km2.                                            *)
C2_ThresholdAtLeastOne ==
    \A i \in 1 .. Len(calls) :
        calls[i].cmd = "r.stream.extract" =>
            /\ calls[i].threshold \in Nat
            /\ calls[i].threshold >= 1
            /\ (cfg.thr * M2PerHalf = 1000000 /\ sess.region.ewres = 30
                  /\ sess.region.nsres = 30)
                  => calls[i].threshold = 1111
            /\ cfg.thr = 0 => calls[i].threshold = 1

C2_Witness ==
    /\ cfg.thr <= 0
    /\ \E i \in 1 .. Len(calls) :
          calls[i].cmd = "r.stream.extract" /\ calls[i].threshold = 1

C3_Order ==
    <<"r.in.gdal", "g.region", "r.fill.dir", "r.watershed", "g.region",
      "r.stream.extract", "v.in.ascii", "v.distance", "r.water.outlet",
      "r.to.vect", "v.in.ascii", "v.db.addcolumn", "v.db.update",
      "v.db.update", "v.db.update", "v.db.update", "v.db.update", "v.extract",
      "v.build", "v.dissolve", "v.clip", "v.select", "r.mask", "r.mapcalc",
      "r.mask">>

(* C3: the engine operations of a run are issued in one fixed order: what   *)
(* has been issued is always a prefix of it, a run that returns has issued  *)
(* all of it, and the resolution is read with the region set to the DEM.    *)
C3_FixedOrder ==
    /\ IsPrefix(Cmds(AnalyseCalls), C3_Order)
    /\ hpc = "returned" => Cmds(AnalyseCalls) = C3_Order
    /\ Len(AnalyseCalls) >= 5 =>
          /\ AnalyseCalls[2].flags = "p" /\ AnalyseCalls[5].flags = "g"
          /\ sess.region.raster = "dem"
          /\ <<sess.region.ewres, sess.region.nsres>> = sess.demRes

C3_Witness == hpc = "returned" /\ Len(AnalyseCalls) = Len(C3_Order)

C4_NoDataRowOutputs ==
    {NoText, Text(<<>>), Text(<<BlankLine>>), Text(<<HeaderLine>>),
     Text(<<HeaderLine, BlankLine>>)}

(* C4: when the nearest-stream query returns no data row, the run fails     *)
(* with gi.GrassError and v.distance is the last engine operation issued.   *)
C4_NoStreamFails ==
    vdOut \in C4_NoDataRowOutputs =>
        /\ hpc \in {"except", "raised"}
        /\ raised = (IF gi = "Exception" THEN Exc("Exception") ELSE Exc("GrassError"))
        /\ calls[Len(calls)].cmd = "v.distance"
        /\ ret = <<>>

C4_Witness == vdOut = Text(<<HeaderLine>>) /\ pc = "done"

(* C5: a run that returns, returns the (to_x, to_y) of the first data row   *)
(* of the v.distance answer, and that pair is the seed of r.water.outlet.   *)
C5_ReturnsSnappedPoint ==
    ret # <<>> =>
        /\ \E i \in 1 .. Len(vdOut.lines) - 1 :
              /\ vdOut.lines[i] = HeaderLine
              /\ vdOut.lines[i + 1] = DataRow(ret)
        /\ \E i \in 1 .. Len(calls) :
              calls[i].cmd = "r.water.outlet" /\ calls[i].coords = ret
        /\ \A i \in 1 .. Len(calls) :
              calls[i].cmd = "r.water.outlet" => calls[i].coords = ret

C5_Witness == ret # <<>> /\ ret # projPt

(* C6: once _post_processing has exited, normally or by a failing           *)
(* operation, no raster mask is active in the session.                      *)
C6_MaskNeverLeaks ==
    hpc \in {"returned", "except", "raised"} => ~sess.mask

(* C7: after a failure inside analyse_hydro_grass no engine operation is    *)
(* issued any more, and coordinates are returned only when every operation  *)
(* of the 8 stages was issued and none failed.                              *)
C7_AllOrNothing ==
    /\ [](ret # <<>> =>
            /\ raised = NoExc /\ anaExc = NoExc
            /\ Len(AnalyseCalls) = Len(C3_Order)
            /\ \A i \in 1 .. Len(AnalyseCalls) :
                  AnalyseCalls[i].writes \subseteq sess.layers)
    /\ [][(hpc \in {"except", "raised"}) => (calls' = calls /\ ret' = ret)]_vars

C7_Witness == pc = "done" /\ hpc = "raised" /\ Len(AnalyseCalls) > 10

(* C8 as stated: whatever fails, the caller of analyse_hydro_grass receives *)
(* the generic pipeline failure.                                            *)
C8_AlwaysGenericFailure ==
    hpc = "raised" => anaExc.cls = "RuntimeError"

(* C8 amended: an exception that is an instance of gi.GrassError is logged  *)
(* at error level and reaches the caller unchanged; any other exception is  *)
(* logged at critical level and reaches the caller as a RuntimeError        *)
(* chained to it.                                                           *)
C8_EngineErrorUnchanged ==
    hpc = "raised" =>
        IF gi = "Exception" \/ raised.cls = "GrassError"
        THEN anaExc = raised /\ Logged("error", "analyse")
                             /\ ~Logged("critical", "analyse")
        ELSE /\ anaExc = [cls |-> "RuntimeError", cause |-> raised.cls]
             /\ Logged("critical", "analyse") /\ ~Logged("error", "analyse")

C8_Witness == hpc = "raised" /\ anaExc.cls = "GrassError"

(* a removal of _nettoyer_temporaires failed: its warning is in the log *)
C9_RemovalFailed ==
    \E i \in 1 .. Len(log) : log[i].level = "warning" /\ log[i].msg \in fs

(* C9: with developer mode off, when the worker has finished and no removal *)
(* failed, neither the run's temporary directory nor the location directory *)
(* of its session is left on disk.                                          *)
C9_SessionTreeDeleted ==
    (pc = "done" /\ ~cfg.dev /\ ~C9_RemovalFailed) =>
        DossierTemp \notin fs /\ LocationPath \notin fs

(* C11: validate_environment returns its execution contexts only when none  *)
(* of the eight requirements is missing or empty; when one is (None, empty  *)
(* or not on disk) it raises EnvError and returns nothing, and the run goes *)
(* to its except clause.                                                    *)
C11_ContextsOnlyIfComplete ==
    /\ locals.infos_env # None =>
          /\ cfg.missing = {}
          /\ locals.infos_env = "GRASS_CMD, GRASS_PYTHON_PATH, GDAL_ENV"
    /\ pc \notin {"idle", "validate"} =>
          IF cfg.missing = {}
          THEN locals.infos_env # None /\ exc.cls # "EnvError"
          ELSE /\ locals.infos_env = None
               /\ exc = [cls |-> "EnvError", cause |-> ""]
               /\ pc \in {"except", "finally", "cleanup", "done"}

C11_Witness ==
    /\ pc = "done" /\ cfg.missing = {<<"PROJ_LIB_EXT", "">>}
    /\ exc.cls = "EnvError" /\ locals.infos_env = None

Blank(s) == \A i \in 1 .. Len(s) : s[i] = " "

(* the user value for a key is present and neither None, nor a blank        *)
(* string, nor an empty list, dict or set                                   *)
C12_Usable(u, k) ==
    /\ k \in DOMAIN u
    /\ u[k].t # "NoneType"
    /\ ~(u[k].t = "str" /\ Blank(u[k].s))
    /\ ~(u[k].t \in {"list", "dict", "set"} /\ u[k].n = 0)

(* C12: for every key of the union of the two records merge_configs yields  *)
(* the user value when it is usable and the default value otherwise (None   *)
(* when the default has no such key); "" falls back to the default, 0 and   *)
(* False are kept.                                                          *)
C12_MergePolicy ==
    result.fn = "merge_configs" =>
        LET u == call.user
            d == call.default
            m == result.value
        IN  /\ DOMAIN m = (DOMAIN u) \cup (DOMAIN d)
            /\ \A k \in DOMAIN m :
                  /\ m[k] = IF C12_Usable(u, k) THEN u[k]
                            ELSE IF k \in DOMAIN d THEN d[k]
                            ELSE [t |-> "NoneType", s |-> <<>>, n |-> 0]
                  /\ (k \in DOMAIN u /\ k \in DOMAIN d) =>
                        /\ (u[k].t = "str" /\ u[k].s = <<>>) => m[k] = d[k]
                        /\ (u[k].t \in {"int", "bool"} /\ u[k].n = 0) => m[k] = u[k]

C12_Witness ==
    /\ result.fn = "merge_configs"
    /\ DOMAIN call.user = {"K1", "K2"} /\ DOMAIN call.default = {"K1", "K2"}
    /\ call.user["K1"].t = "str" /\ call.user["K1"].s = <<>>
    /\ call.user["K2"].t = "int" /\ call.user["K2"].n = 0
    /\ call.default["K1"].s = <<"d">> /\ call.default["K2"].s = <<"d">>
    /\ result.value["K1"].s = <<"d">> /\ result.value["K2"].t = "int"

(* a field is set: it holds a value other than None and a blank string *)
C13_IsSet(v) == v.t # "NoneType" /\ ~(v.t = "str" /\ Blank(v.s))

(* the string s is a reference to the environment variable n, possibly     *)
(* with blanks around it                                                    *)
C13_Refers(s, n) ==
    \E i, j \in 1 .. Len(s) :
        /\ SubSeq(s, i, j) = <<"$", "{", "e", "n", "v", ":">> \o n \o <<"}">>
        /\ Blank(SubSeq(s, 1, i - 1))
        /\ Blank(SubSeq(s, j + 1, Len(s)))

C13_Names == {<<"A">>, <<"B">>}

C13_IsRef(v) == v.t = "str" /\ \E n \in C13_Names : C13_Refers(v.s, n)

(* C13 as stated: after save_config and load_config_pair against an empty   *)
(* default, every field that was set has the value it had.                  *)
C13_RoundTrip ==
    result.fn = "save_config, load_config_pair" =>
        /\ result.exc.cls = ""
        /\ \A f \in DOMAIN call.config :
              C13_IsSet(call.config[f]) => result.config[f] = call.config[f]

(* C13 amended: every field that was set comes back with the value it had,  *)
(* except a string that is, once trimmed, a reference ${env:NAME}: it comes *)
(* back as the value of the environment variable NAME, or as None when that *)
(* variable is unset or blank; a field that was not set comes back as None. *)
C13_RoundTripExceptRefs ==
    result.fn = "save_config, load_config_pair" =>
        /\ result.exc.cls = ""
        /\ DOMAIN result.config = DOMAIN call.config
        /\ \A f \in DOMAIN call.config :
              LET v == call.config[f]
                  r == result.config[f]
              IN  IF ~C13_IsSet(v) THEN r.t = "NoneType"
                  ELSE IF C13_IsRef(v)
                  THEN \A n \in C13_Names :
                          C13_Refers(v.s, n) =>
                             IF n \in DOMAIN call.env /\ ~Blank(call.env[n])
                             THEN r.t = "str" /\ r.s = call.env[n]
                             ELSE r.t = "NoneType"
                  ELSE r = v

C13_Witness ==
    /\ result.fn = "save_config, load_config_pair"
    /\ call.config["SITE_NAME"].s = <<"$", "{", "e", "n", "v", ":", "A", "}">>
    /\ result.config["SITE_NAME"].s = <<"v">>
    /\ call.config["EPSG_CIBLE"].t = "int" /\ call.config["EPSG_CIBLE"].n = 0
    /\ result.config["EPSG_CIBLE"].t = "int" /\ result.config["EPSG_CIBLE"].n = 0

(* the string s is ${env:NAME}, NAME a letter or "_" followed by letters,    *)
(* digits or "_", and nothing else                                          *)
C14_Matches(s) ==
    /\ Len(s) >= 8
    /\ SubSeq(s, 1, 6) = <<"$", "{", "e", "n", "v", ":">>
    /\ s[Len(s)] = "}"
    /\ s[7] \in NameStart
    /\ \A i \in 8 .. Len(s) - 1 : s[i] \in NameChar

(* C14: when a configuration file is loaded, a value that is a string       *)
(* matching ${env:NAME} becomes the value of the environment variable NAME  *)
(* (the empty string when it is unset), and every other value, blanks       *)
(* included, is passed through unchanged.                                   *)
C14_OnlyReferencesReplaced ==
    result.fn = "_load_single_config" =>
        /\ DOMAIN result.value = DOMAIN call.doc
        /\ \A k \in DOMAIN result.value :
              LET v == result.raw[k]
                  r == result.value[k]
              IN  IF v.t = "str" /\ C14_Matches(v.s)
                  THEN /\ r.t = "str"
                       /\ r.s = LET n == SubSeq(v.s, 7, Len(v.s) - 1)
                                IN  IF n \in DOMAIN call.env THEN call.env[n] ELSE <<>>
                  ELSE r = v

West == result.bbox[1]
South == result.bbox[2]
East == result.bbox[3]
North == result.bbox[4]

(* C15 as stated: for every half-width >= 0, 0 included, and every latitude *)
(* strictly between -90 and 90, west < east and south < north.              *)
C15_StrictBox ==
    (result.fn = "calculate_bbox_wgs84" /\ Abs(call.lat) < 90000 /\ call.size_km >= 0)
        => West < East /\ South < North

(* C15 amended: for every latitude strictly between -90 and 90, a           *)
(* half-width of exactly 0 gives the degenerate box west = east = lon,      *)
(* south = north = lat, and a half-width of a kilometre or more gives       *)
(* west < east and south < north.                                           *)
C15_StrictBoxUnlessZero ==
    (result.fn = "calculate_bbox_wgs84" /\ Abs(call.lat) < 90000) =>
        /\ call.size_km = 0 =>
              /\ West = call.lon /\ East = call.lon
              /\ South = call.lat /\ North = call.lat
        /\ call.size_km >= 1 => West < East /\ South < North

C15_Witness ==
    /\ result.fn = "calculate_bbox_wgs84" /\ call.size_km = 0
    /\ call.lat = 60000 /\ West = East /\ South = North

(* C16: for a center with latitude in [-90, 90] and longitude in            *)
(* [-180, 180], west and east are within [-180, 180] and south and north    *)
(* within [-90, 90], whatever the half-width.                               *)
C16_BoxWithinWgs84 ==
    result.fn = "calculate_bbox_wgs84" =>
        /\ 0 - 180000 <= West /\ West <= 180000
        /\ 0 - 180000 <= East /\ East <= 180000
        /\ 0 - 90000 <= South /\ South <= 90000
        /\ 0 - 90000 <= North /\ North <= 90000

(* C17: for a fixed half-width >= 0 and longitude the width east - west     *)
(* does not decrease as |latitude| grows, the box is symmetric about the    *)
(* center, the width never exceeds 2 * half-width / (111.0 * 0.01), which   *)
(* it reaches where the cosine is under the floor, and the height is        *)
(* 2 * half-width / 111.0 at every latitude (each within the rounding of    *)
(* one unit).                                                               *)
C17_WidthGrowsWithLatitude ==
    result.fn = "calculate_bbox_wgs84" =>
        /\ \A lat \in Latitudes :
              LET other == CalculateBboxWgs84(lat, call.lon, call.size_km) IN
              /\ Abs(lat) >= Abs(call.lat) => other[3] - other[1] >= East - West
              /\ Abs(lat) = Abs(call.lat) => other[3] - other[1] = East - West
              /\ other[4] - other[2] = North - South
        /\ East - call.lon = call.lon - West
        /\ North - call.lat = call.lat - South
        /\ (East - West) * 1110 <= 2 * call.size_km * 1000000 + 1110
        /\ Abs(call.lat) >= 89500 =>
              (East - West) * 1110 >= 2 * call.size_km * 1000000 - 1110
        /\ (Abs(call.lat) = 60000 /\ call.size_km >= 1) =>
              \E b \in {CalculateBboxWgs84(0, call.lon, call.size_km)} :
                  East - West > b[3] - b[1]
        /\ (North - South) * 111 <= 2 * call.size_km * 1000 + 111
        /\ (North - South) * 111 >= 2 * call.size_km * 1000 - 111

C17_Witness ==
    /\ result.fn = "calculate_bbox_wgs84" /\ call.size_km = 111
    /\ call.lat = 89500 /\ call.lon = 0
    /\ East - West = 200000 /\ North - South = 2000

(* the cell was masked when read: it holds the NoData value the file had *)
C18_WasMasked(i) == call.ds.nodata.set /\ call.ds.band[i] = call.ds.nodata.v

(* C18: after a cleaning that succeeded, every cell of band 1 that was      *)
(* below -100, above 10000 or already masked holds the sentinel, every      *)
(* other cell (within [-100, 10000], ends included) is unchanged, and the   *)
(* NoData tag of the raster is the sentinel, as is its NoData value unless  *)
(* the raster refused the assignment.                                       *)
C18_CleanedRaster ==
    (result.fn = "_nettoyage_valeurs_rasterio" /\ result.exc.cls = "") =>
        /\ Len(result.ds.band) = Len(call.ds.band)
        /\ \A i \in 1 .. Len(call.ds.band) :
              LET v == call.ds.band[i] IN
              /\ (v < 0 - 100 \/ v > 10000 \/ C18_WasMasked(i))
                    => result.ds.band[i] = call.nodata_value
              /\ (0 - 100 <= v /\ v <= 10000 /\ ~C18_WasMasked(i))
                    => result.ds.band[i] = v
        /\ result.ds.tag = [set |-> TRUE, v |-> call.nodata_value]
        /\ ~call.setter_fails =>
              result.ds.nodata = [set |-> TRUE, v |-> call.nodata_value]

C18_Witness ==
    /\ result.fn = "_nettoyage_valeurs_rasterio" /\ result.exc.cls = ""
    /\ call.ds.band = <<0 - 100, 10001>> /\ call.nodata_value = 0 - 9999
    /\ result.ds.band = <<0 - 100, 0 - 9999>>
    /\ result.ds.tag.set /\ result.ds.tag.v = 0 - 9999

(* the request failed: no response, a non-2xx response, or a stream that   *)
(* broke                                                                    *)
C19_RequestFailed ==
    \/ resp \in {"none", "non2xx"}
    \/ resp = "2xx" /\ exc.cls = "RequestException" /\ hpc = "idle"

(* C19: telecharger_mnt returns the path only after a 2xx response was      *)
(* streamed to disk in full; on a non-2xx response or a network failure it  *)
(* raises and returns no path, no second request is sent, preprocessing is  *)
(* not started and the run ends in failure.                                 *)
C19_DownloadOrFail ==
    /\ net <= 1
    /\ locals.mnt_brut # None =>
          /\ resp = "2xx" /\ net = 1
          /\ "TEMP_DIR/session" \in fs =>
                [name |-> "alos_raw.tif", data |-> <<1>>] \in files
    /\ subprocs # <<>> => locals.mnt_brut = "alos_raw.tif"
    /\ C19_RequestFailed =>
          /\ locals.mnt_brut = None
          /\ exc = [cls |-> "RequestException", cause |-> ""]
          /\ pc \in {"except", "finally", "cleanup", "done"}
          /\ subprocs = <<>> /\ calls = <<>>
          /\ [name |-> "alos_raw.tif", data |-> <<1>>] \notin files
          /\ Logged("error", "API OpenTopography")
          /\ ~Logged("info", "telechargement termine")
          /\ pc = "done" => ui.dialogs = <<"showerror">>

C19_Witness ==
    /\ pc = "done" /\ resp = "non2xx" /\ net = 1
    /\ exc.cls = "RequestException" /\ subprocs = <<>>

(* C20: a successful export_grass_results issues exactly three v.out.ogr    *)
(* to one GeoPackage path, for rivieres_clipped, outlet_point_clipped and   *)
(* main_basin_diss in that order, the first without the append flag and     *)
(* the other two with it, then exactly one r.out.gdal of dem_filled_masked; *)
(* when a vector export fails, no r.out.gdal is issued.                     *)
C20_ExportSequence ==
    /\ Logged("info", "exports finalises") =>
          /\ Cmds(ExportCalls) = <<"v.out.ogr", "v.out.ogr", "v.out.ogr", "r.out.gdal">>
          /\ [i \in 1 .. 4 |-> ExportCalls[i].input] =
                <<"rivieres_clipped", "outlet_point_clipped", "main_basin_diss",
                  "dem_filled_masked">>
          /\ [i \in 1 .. 3 |-> ExportCalls[i].flags] = <<"", "a", "a">>
          /\ \A i \in 1 .. 3 : ExportCalls[i].output = ExportCalls[1].output
          /\ ExportCalls[4].output # ExportCalls[1].output
    /\ Logged("error", "echec export couche") =>
          /\ Len(ExportCalls) \in 1 .. 3
          /\ \A i \in 1 .. Len(ExportCalls) : ExportCalls[i].cmd = "v.out.ogr"
          /\ ~Logged("info", "exports finalises")

C20_Witness ==
    /\ pc = "done" /\ Logged("info", "exports finalises")
    /\ Len(ExportCalls) = 4 /\ ExportCalls[1].flags = ""

C10_Milestones ==
    <<"environnement valide", "dossiers prepares", "telechargement termine",
      "MNT nettoye", "modules GRASS", "session", "exutoire", "exports finalises">>

C10_IsMilestone(r) ==
    r.level = "info" /\ \E i \in 1 .. Len(C10_Milestones) : C10_Milestones[i] = r.msg

C10_Reached == [i \in 1 .. Len(SelectSeq(log, C10_IsMilestone)) |->
                    SelectSeq(log, C10_IsMilestone)[i].msg]

(* C10: the worker's steps run in the fixed order, each only after every    *)
(* earlier one succeeded: nothing is downloaded, started or asked of the    *)
(* engine when validation fails, and nothing is exported after a failed     *)
(* analysis.                                                                *)
C10_StepsInOrder ==
    /\ IsPrefix(C10_Reached, C10_Milestones)
    /\ cfg.missing # {} => net = 0 /\ subprocs = <<>> /\ calls = <<>>
    /\ net <= 1
    /\ net = 1 => Logged("info", "dossiers prepares")
    /\ subprocs # <<>> => subprocs[1] = "gdalwarp" /\ Logged("info", "telechargement termine")
    /\ Len(subprocs) > 1 => Logged("info", "modules GRASS")
    /\ calls # <<>> => calls[1].cmd = "g.gisenv" /\ Logged("info", "session")
    /\ AnalyseCalls # <<>> => Logged("info", "session")
    /\ ExportCalls # <<>> =>
          /\ Logged("info", "exutoire")
          /\ ret # <<>> /\ anaExc = NoExc /\ hpc = "returned"
    /\ hpc = "raised" => ExportCalls = <<>> /\ ~Logged("info", "exports finalises")

C10_Witness == pc = "done" /\ cfg.missing # {} /\ net = 0

(* the assignment ds.nodata = nodata_value raised inside a cleaning that    *)
(* has returned or raised                                                   *)
C21_SetterRaised ==
    /\ call.fn = "_nettoyage_valeurs_rasterio" /\ result.fn # ""
    /\ ~call.io_fails /\ call.setter_fails

(* C21: no failure is silently swallowed: an exception raised by an         *)
(* operation reaches the caller, unless it comes from a best-effort removal *)
(* of a temporary file or directory, and then a warning is logged.          *)
C21_NothingSwallowed ==
    C21_SetterRaised =>
        \/ result.exc # NoExc
        \/ \E i \in 1 .. Len(result.log) : result.log[i].level = "warning"

C22_Alive == {i \in 1 .. Len(threads) : threads[i].pc # "ended"}

(* C22: at most one worker thread is alive at any time: a new worker starts *)
(* only once the previous one has finished, its cleanup of the temporary    *)
(* directories included.                                                    *)
C22_OneWorkerAlive == Cardinality(C22_Alive) <= 1

(* C23: within one run every named layer is written by exactly one engine   *)
(* operation and never modified by a later one (the raster mask of stage 8e *)
(* is no named layer).                                                      *)
C23_LayersWrittenOnce ==
    \A i, j \in 1 .. Len(calls) :
        i < j => calls[i].writes \cap calls[j].writes = {}

(* stage 7 has completed: stage 8 is next or has begun *)
C24_Stage7Done ==
    hpc = "post" \/ \E i \in 1 .. Len(calls) : calls[i].cmd = "v.extract"

(* C24: after stage 7 the layer outlet_point holds one point, at the        *)
(* snapped coordinates that stage 5 returned, with the attributes           *)
(* PointId=1, RES=0, INLET=0, ID=1, PTSOURCE=0 whatever the inputs.         *)
C24_SwatOutlet ==
    C24_Stage7Done =>
        /\ "outlet_point" \in sess.layers
        /\ sess.outletPt = outPt
        /\ \E i \in 1 .. Len(vdOut.lines) - 1 :
              /\ vdOut.lines[i] = HeaderLine
              /\ vdOut.lines[i + 1] = DataRow(sess.outletPt)
        /\ sess.outletAttrs = {<<"PointId", "1">>, <<"RES", "0">>, <<"INLET", "0">>,
                               <<"ID", "1">>, <<"PTSOURCE", "0">>}

C24_Witness ==
    /\ hpc = "post" /\ sess.outletPt = FarPoint /\ projPt = Origin
    /\ cfg.thr = MaxThrHalves

(* the layers written by the operations issued before the i-th one *)
C25_WrittenBefore(i) == UNION {calls[j].writes : j \in 1 .. i - 1}

(* C25: every named layer an engine operation reads was written by an      *)
(* earlier operation of the run, and after a successful analysis the four   *)
(* layers the exporter reads exist in the session.                          *)
C25_DependencyChain ==
    /\ \A i \in 1 .. Len(calls) :
          calls[i].reads \subseteq C25_WrittenBefore(i) \cap sess.layers
    /\ hpc = "returned" =>
          {"rivieres_clipped", "outlet_point_clipped", "main_basin_diss",
           "dem_filled_masked"} \subseteq sess.layers

C25_Witness ==
    /\ hpc = "returned" /\ Len(ExportCalls) = 4
    /\ ExportCalls[4].reads = {"dem_filled_masked"}

C26_Returned == call.fn = "pretraiter_mnt" /\ result.fn # ""

(* C26: pretraiter_mnt cleans only after the reprojection subprocess has    *)
(* exited with status 0; when the subprocess exits non-zero or runs into    *)
(* its timeout, the raster is never opened, no path is returned and the     *)
(* caller gets a RuntimeError.                                              *)
C26_ReprojectThenClean ==
    C26_Returned =>
        /\ \A i \in 1 .. Len(result.trace) :
              result.trace[i] = "rasterio.open" =>
                 /\ i = 3
                 /\ result.trace[1] = "gdalwarp" /\ result.trace[2] = "exit 0"
        /\ call.outcome \in {"exit 1", "timeout"} =>
              /\ \A i \in 1 .. Len(result.trace) : result.trace[i] # "rasterio.open"
              /\ result.path = "None"
              /\ result.exc.cls = "RuntimeError"
              /\ result.exc.cause = IF call.outcome = "timeout"
                                    THEN "TimeoutExpired" ELSE "CalledProcessError"
              /\ result.ds = call.ds
        /\ result.path # "None" =>
              /\ result.exc = NoExc
              /\ result.trace = <<"gdalwarp", "exit 0", "rasterio.open">>

C26_Witness ==
    /\ C26_Returned /\ call.outcome = "timeout"
    /\ result.exc.cause = "TimeoutExpired" /\ Len(call.ds.band) = 1

(* the threads with an engine operation in progress *)
C27_Busy == {i \in 1 .. Len(threads) : threads[i].op # ""}

(* thread i is inside stage 8e: r.mask is in progress or the mask is on     *)
C27_InMaskWindow(i) ==
    threads[i].pc = "engine" /\ (threads[i].mask \/ threads[i].op = "r.mask")

(* C27: under every interleaving of clicks and worker threads at most one   *)
(* engine operation is in progress at a time, and while one run is inside   *)
(* its stage 8e no other run has an engine operation in progress.           *)
C27_OneEngineOperation ==
    /\ Cardinality(C27_Busy) <= 1
    /\ \A i, j \in 1 .. Len(threads) :
          i # j /\ C27_InMaskWindow(i) =>
             threads[j].op = "" /\ threads[j].pc \in {"cleanup", "ended"}

C27_Witness ==
    /\ Len(threads) = 2 /\ threads[1].pc = "cleanup"
    /\ threads[2].op = "r.mapcalc" /\ threads[2].mask

C28_Returned == call.fn = "validate_environment" /\ result.fn # ""

(* C28: validate_environment leaves the process environment as it was when  *)
(* it raises EnvError: GDAL_DATA, PROJ_LIB, PATH, PYTHONHOME and PYTHONPATH *)
(* change only after every presence check has passed.                       *)
C28_EnvironUntouchedOnError ==
    C28_Returned =>
        /\ result.exc.cls = "EnvError" => result.environ = call.environ
        /\ result.environ # call.environ =>
              /\ result.exc = NoExc
              /\ call.cfg.missing = {}
        /\ call.cfg.missing # {} => result.exc.cls = "EnvError"
        /\ result.exc = NoExc =>
              /\ result.environ.GDAL_DATA = <<"GDAL_DATA_EXT">>
              /\ result.environ.PROJ_LIB = <<"PROJ_LIB_EXT">>
              /\ Head(result.environ.PATH) = "GDAL_BIN_EXT"
              /\ Head(result.environ.PYTHONPATH) = "GRASS_GISBASE/etc/python"

C28_Witness ==
    /\ C28_Returned /\ result.exc.cls = "EnvError"
    /\ call.cfg.missing = {<<"GDAL_BIN_EXT", "absent">>}
    /\ call.environ.PATH = <<"/usr/bin">> /\ result.environ.PATH = <<"/usr/bin">>

(* the user document gives key k as a reference ${env:NAME} to a variable   *)
(* that is unset or blank                                                   *)
C29_UnsetRef(k) ==
    /\ call.fn = "load_config_pair" /\ result.fn # ""
    /\ k \in DOMAIN call.user
    /\ LET v == YamlLoadScalar(call.user[k]) IN
          /\ v.t = "str" /\ C14_Matches(v.s)
          /\ LET n == SubSeq(v.s, 7, Len(v.s) - 1) IN
                n \in DOMAIN call.env => Blank(call.env[n])

(* C29 as stated: the reference resolves to the empty string and the merged *)
(* configuration has the default record's value for the key, never the      *)
(* empty string.                                                            *)
C29_UnsetTakesDefault ==
    \A k \in {"SITE_NAME"} :
        C29_UnsetRef(k) =>
            /\ result.user[k] = [t |-> "str", s |-> <<>>, n |-> 0]
            /\ result.exc.cls = ""
            /\ k \in DOMAIN result.default => result.config[k] = result.default[k]
            /\ result.config[k] # [t |-> "str", s |-> <<>>, n |-> 0]

(* C29 amended: the reference resolves to the variable's value, which is    *)
(* empty or blank, and the merged configuration has the default record's    *)
(* resolved value for the key: None when the default record has no such     *)
(* key, and an empty string only when that is the default's own value.      *)
C29_UnsetTakesResolvedDefault ==
    \A k \in {"SITE_NAME"} :
        C29_UnsetRef(k) =>
            /\ result.user[k].t = "str" /\ Blank(result.user[k].s)
            /\ result.exc.cls = ""
            /\ result.config[k] =
                  IF k \in DOMAIN result.default THEN result.default[k]
                  ELSE [t |-> "NoneType", s |-> <<>>, n |-> 0]
            /\ result.config[k] = [t |-> "str", s |-> <<>>, n |-> 0] =>
                  /\ k \in DOMAIN call.default
                  /\ LET d == YamlLoadScalar(call.default[k]) IN
                        \/ d = [t |-> "str", s |-> <<>>, n |-> 0]
                        \/ d.t = "str" /\ C14_Matches(StrStrip(d.s))

C29_Witness ==
    /\ C29_UnsetRef("SITE_NAME") /\ call.env = [n \in {} |-> <<>>]
    /\ "SITE_NAME" \in DOMAIN call.default
    /\ result.config["SITE_NAME"] = [t |-> "str", s |-> <<"d">>, n |-> 0]

(* C30: under either binding of gi.GrassError an exception raised inside    *)
(* analyse_hydro_grass that is no engine error (here: one that no engine    *)
(* call raised) reaches the caller as a RuntimeError chained to it, and an  *)
(* error of the engine's own class reaches it unchanged.                    *)
C30_WrappedUnderEitherBinding ==
    hpc = "raised" =>
        /\ raised.cls \in {"OSError", "CRSError"} =>
              anaExc = [cls |-> "RuntimeError", cause |-> raised.cls]
        /\ raised.cls = "GrassError" => anaExc = raised

====
